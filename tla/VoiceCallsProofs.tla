-------------------------- MODULE VoiceCallsProofs --------------------------
(***************************************************************************)
(* Theorems about the server of a voice call, driven by the tab of         *)
(* VoiceRecovery, for every number of segments, minutes, recovery attempts *)
(* and upsets: one segment lives, its minutes are reserved, and a tab that *)
(* takes itself to be connected is on it.                                  *)
(***************************************************************************)
EXTENDS VoiceRecovery, FiniteSetTheorems, TLAPS

-----------------------------------------------------------------------------
(* The inductive invariant *)

\* A segment that may still become, or is, the one in use.
Runs(s) == (Starting(s) \/ seg[s].stage = "live") /\ ~seg[s].closing

ControlTypes ==
  /\ call \in Lifecycle /\ seg \in [Segments -> Segment]
  /\ slot \in 0..MaxSegments /\ entry \in 0..MaxSegments /\ consent \in Nat
  /\ \A c \in checks : /\ c = [seg |-> c.seg, of |-> c.of, explicit |-> c.explicit, waited |-> c.waited]
                       /\ c.seg \in Segments

\* What runs has the session's slot and takes the call's commands; what is closed
\* while it starts cannot connect any more; a connected segment has its start behind it.
Controlled ==
  /\ ControlTypes
  /\ \A s \in Segments : Runs(s) => slot = s /\ entry = s
  /\ \A s \in Segments : Live(s) => Authorized(s) /\ call.state # "ended" /\ call.provider = s
  /\ \A s \in Segments : Starting(s) /\ seg[s].closing => ~Authorized(s) \/ call.state = "ended"
  /\ \A s \in Segments : seg[s].auth <= consent /\ seg[s].epoch <= call.epoch
  /\ \A s \in Segments : s \in call.known => seg[s].stage \in {"live", "gone"}
  /\ \A s \in Segments : seg[s].stage = "gone" => seg[s].closing
  /\ \A c \in checks : seg[c.seg].stage \in {"live", "gone"}

HoldTypes ==
  /\ hold \in [Segments -> Holds]
  /\ record \in [Segments -> {"none", "saved", "unconfirmed", "final"}]
  /\ provider \in [Segments -> {"none", "open", "closed"}]

\* What a segment holds of the minutes goes by how far its start has come.
HoldOf(s) ==
  /\ seg[s].stage \in {"none", "admitting"} => hold[s] = "none"
  /\ seg[s].stage = "opening" => hold[s] = "held"
  /\ seg[s].stage \in {"consumed", "dispatched", "live"} => hold[s] = "sent"
  /\ record[s] = "saved" => seg[s].stage \in {"dispatched", "live"}
  /\ record[s] \in {"unconfirmed", "final"} => seg[s].stage = "gone"
  /\ provider[s] = "open" => hold[s] \in {"sent", "kept"}

HeldFor ==
  /\ HoldTypes
  /\ \A s \in Segments : HoldOf(s)
  /\ Cardinality(Reserved) <= Minutes

CInv == Controlled /\ HeldFor

money == <<hold, record, provider>>

-----------------------------------------------------------------------------
(* What the events of the lifecycle do to a call *)

\* An event that neither connects a segment, nor passes the call on, nor ends it.
Steady(c, d) ==
  /\ d \in Lifecycle
  /\ d.provider = c.provider /\ d.known = c.known /\ d.epoch = c.epoch
  /\ d.state = "ended" <=> c.state = "ended"

\* These events neither end a call nor change its provider or its epochs.
LEMMA SteadyEvents ==
  ASSUME NEW c \in Lifecycle
  PROVE  /\ Steady(c, c) /\ Steady(c, Start(c)) /\ Steady(c, HoldFor(c, "pause"))
         /\ Steady(c, ResumeAcknowledged(c)) /\ Steady(c, TransportLost(c))
         /\ Steady(c, WaitFor(c, "waiting")) /\ Steady(c, WaitFor(c, "server-restart"))
<1>0. 0 \in 0..Allowance /\ "pause" \in Reasons /\ "waiting" \in Reasons /\ "server-restart" \in Reasons
  BY AllowanceAssumption DEF Reasons
<1>1. Steady(c, c) /\ Steady(c, Start(c))
  BY DEF Steady, Start, Lifecycle, States
<1>2. Steady(c, HoldFor(c, "pause"))
  BY <1>0 DEF Steady, HoldFor, Lifecycle, States
<1>3. Steady(c, ResumeAcknowledged(c))
  BY <1>0 DEF Steady, ResumeAcknowledged, Unless, Lifecycle, States
<1>4. Steady(c, TransportLost(c))
  BY DEF Steady, TransportLost, Unless, Lifecycle, States
<1>5. \A r \in Reasons : Steady(c, WaitFor(c, r))
  BY DEF Steady, WaitFor, Unless, Lifecycle, States
<1> QED
  BY <1>0, <1>1, <1>2, <1>3, <1>4, <1>5

\* The call waits after the last attempt of a recovery.
LEMMA ExhaustedSteady == ASSUME NEW c \in Lifecycle PROVE Steady(c, RecoveryExhausted(c))
<1> DEFINE d == WaitFor(c, "waiting")
<1>1. Steady(c, d)
  BY SteadyEvents
<1>2. Allowance \in 0..Allowance
  BY AllowanceAssumption
<1> HIDE DEF d
<1>3. Steady(c, [d EXCEPT !.attempts = Allowance])
  BY <1>1, <1>2 DEF Steady, Lifecycle
<1> QED
  BY <1>3, SteadyEvents DEF RecoveryExhausted, Unless, d

\* A segment that is not being replaced waits to be recovered.
LEMMA ResumableSteady == ASSUME NEW c \in Lifecycle PROVE Steady(c, Resumable(c))
BY SteadyEvents DEF Resumable

\* Two steady events in a row are steady.
LEMMA SteadyTwice ==
  ASSUME NEW c, NEW d, NEW e, Steady(c, d), Steady(d, e) PROVE Steady(c, e)
BY DEF Steady

\* An ended call stays ended, of the same segments and the same tab.
LEMMA EndCallDoes ==
  ASSUME NEW c \in Lifecycle
  PROVE  /\ EndCall(c) \in Lifecycle /\ EndCall(c).state = "ended"
         /\ EndCall(c).provider = c.provider /\ EndCall(c).known = c.known /\ EndCall(c).epoch = c.epoch
BY DEF EndCall, Unless, Lifecycle, States, Reasons

\* A takeover is of the next epoch.
LEMMA TakenOverDoes ==
  ASSUME NEW c \in Lifecycle, c.state # "ended"
  PROVE  /\ TakenOver(c) \in Lifecycle /\ TakenOver(c).state # "ended"
         /\ TakenOver(c).provider = c.provider /\ TakenOver(c).known = c.known /\ TakenOver(c).epoch = c.epoch + 1
<1> DEFINE d == WaitFor(c, "takeover")
<1>1. Steady(c, d)
  BY DEF Steady, WaitFor, Unless, Lifecycle, States, Reasons
<1>2. c.epoch \in Nat /\ c.epoch + 1 \in Nat
  BY DEF Lifecycle
<1> DEFINE n == d.epoch + 1
<1>3. n \in Nat /\ n = c.epoch + 1
  BY <1>1, <1>2 DEF Steady
<1> HIDE DEF d, n
<1>4. [d EXCEPT !.epoch = n] \in Lifecycle
  BY <1>1, <1>3 DEF Steady, Lifecycle
<1>5. LET e == [d EXCEPT !.epoch = n] IN
      e.provider = d.provider /\ e.known = d.known /\ e.state = d.state /\ e.epoch = n
  BY <1>1 DEF Steady, Lifecycle
<1>6. TakenOver(c) = [d EXCEPT !.epoch = n]
  BY DEF TakenOver, Unless, d, n
<1> QED
  BY <1>1, <1>3, <1>4, <1>5, <1>6 DEF Steady

\* A segment that was never connected is connected by the tab of its epoch.
LEMMA ConnectedDoes ==
  ASSUME NEW c \in Lifecycle, c.state # "ended", NEW p \in Nat, p \notin c.known, NEW a \in Nat
  PROVE  LET d == PauseIf(Connected(c, c.epoch, p, a)) IN
         /\ d \in Lifecycle /\ d.state # "ended"
         /\ d.provider = p /\ d.known = c.known \cup {p} /\ d.epoch = c.epoch
<1> DEFINE k == c.known \cup {p}
           st == IF c.holds # {} THEN "paused" ELSE "active"
           d == [c EXCEPT !.state = st, !.needsRecovery = FALSE, !.attempts = 0, !.auth = a, !.provider = p, !.known = k]
<1>1. k \in SUBSET Nat /\ st \in States /\ st # "ended" /\ 0 \in 0..Allowance
  BY AllowanceAssumption DEF Lifecycle, States
<1>2. Connected(c, c.epoch, p, a) = d
  BY DEF Connected
<1> HIDE DEF k, st
<1>3. d \in Lifecycle /\ d.state # "ended" /\ d.provider = p /\ d.known = k /\ d.epoch = c.epoch
  BY <1>1 DEF Lifecycle
<1> HIDE DEF d
<1>4. Steady(d, PauseIf(d))
  BY <1>3, SteadyEvents DEF PauseIf
<1> QED
  BY <1>2, <1>3, <1>4 DEF Steady, k

-----------------------------------------------------------------------------
(* Closing segments *)

\* Of every segment only the closing mark changes, and it for those of C.
ClosesOnly(C) ==
  /\ seg' \in [Segments -> Segment]
  /\ \A s \in Segments : /\ seg'[s].stage = seg[s].stage /\ seg'[s].epoch = seg[s].epoch /\ seg'[s].auth = seg[s].auth
                         /\ seg'[s].closing = (seg[s].closing \/ s \in C)

\* Closing a segment closes that segment and no other.
LEMMA ClosedDoes ==
  ASSUME ControlTypes, NEW s \in Segments, seg' = Closed(s)
  PROVE  ClosesOnly({s})
<1>1. seg \in [Segments -> Segment] /\ \A u \in Segments : seg[u].closing \in BOOLEAN
  BY DEF ControlTypes, Segment
<1>2. [seg[s] EXCEPT !.closing = TRUE] \in Segment
  BY <1>1 DEF Segment
<1>3. seg' = [seg EXCEPT ![s] = [seg[s] EXCEPT !.closing = TRUE]]
  BY DEF Closed
<1>4. /\ seg' \in [Segments -> Segment]
      /\ \A u \in Segments : u # s => seg'[u] = seg[u]
      /\ seg'[s] = [seg[s] EXCEPT !.closing = TRUE]
  BY <1>1, <1>2, <1>3
<1>5. LET e == [seg[s] EXCEPT !.closing = TRUE] IN
      /\ e.closing = TRUE /\ e.stage = seg[s].stage /\ e.epoch = seg[s].epoch /\ e.auth = seg[s].auth
  BY <1>1 DEF Segment
<1> QED
  BY <1>1, <1>4, <1>5 DEF ClosesOnly

\* Segments left alone are closed by nobody.
LEMMA ClosesNone == ASSUME ControlTypes, seg' = seg PROVE ClosesOnly({})
<1>1. seg \in [Segments -> Segment] /\ \A u \in Segments : seg[u].closing \in BOOLEAN
  BY DEF ControlTypes, Segment
<1> QED
  BY <1>1 DEF ClosesOnly

\* What segments hold is as before when their starts came no further than admission.
LEMMA HeldKept ==
  ASSUME HeldFor, UNCHANGED money,
         \A s \in Segments : \/ seg'[s].stage = seg[s].stage
                             \/ seg[s].stage = "none" /\ seg'[s].stage = "admitting"
                             \/ seg[s].stage = "dispatched" /\ seg'[s].stage = "live"
  PROVE  HeldFor'
<1>1. UNCHANGED <<hold, record, provider>>
  BY DEF money
<1>2. \A s \in Segments : HoldOf(s)'
  BY <1>1 DEF HeldFor, HoldOf
<1> QED
  BY <1>1, <1>2 DEF HeldFor, HoldTypes, Reserved

\* The call ends, passes to another tab or loses its consent.
Revoked == (call'.state = "ended" /\ call.state # "ended") \/ call'.epoch # call.epoch \/ consent' # consent

\* A step that closes segments, or none: when it takes the call away from what
\* runs it closes that; what it closes while it starts, it takes the call from.
LEMMA CloseKeeps ==
  ASSUME CInv, NEW C \in SUBSET Segments, ClosesOnly(C),
         call' \in Lifecycle, call'.provider = call.provider, call'.known = call.known,
         call'.epoch >= call.epoch, call.state = "ended" => call'.state = "ended",
         consent' \in Nat, consent' >= consent,
         slot' = slot \/ (slot' = 0 /\ slot \in C \cup {0}), entry' = entry,
         \A c \in checks' : /\ c = [seg |-> c.seg, of |-> c.of, explicit |-> c.explicit, waited |-> c.waited]
                            /\ c.seg \in Segments /\ seg[c.seg].stage \in {"live", "gone"},
         Revoked => \A s \in Segments : Runs(s) => s \in C,
         \A s \in C : Starting(s) /\ ~seg[s].closing =>
           call'.state = "ended" \/ call'.epoch # call.epoch \/ consent' # consent,
         UNCHANGED money
  PROVE  CInv'
<1>0. /\ seg \in [Segments -> Segment] /\ call.epoch \in Nat /\ call'.epoch \in Nat /\ consent \in Nat
      /\ \A s \in Segments : seg[s].auth \in Nat /\ seg[s].epoch \in Nat /\ seg[s].closing \in BOOLEAN
      /\ slot \in 0..MaxSegments /\ entry \in 0..MaxSegments /\ MaxSegments \in Nat
  BY CallAssumption DEF CInv, Controlled, ControlTypes, Segment, Lifecycle
<1>1. \A s \in Segments : /\ seg'[s].stage = seg[s].stage /\ seg'[s].epoch = seg[s].epoch /\ seg'[s].auth = seg[s].auth
                          /\ seg'[s].closing <=> (seg[s].closing \/ s \in C)
  BY DEF ClosesOnly
<1>2. HeldFor'
  BY <1>1, HeldKept DEF CInv
<1>3. ControlTypes'
  BY <1>0 DEF ControlTypes, ClosesOnly
<1>4. \A s \in Segments : Runs(s)' => Runs(s) /\ s \notin C
  BY <1>1 DEF Runs, Starting
<1>5. \A s \in Segments : Runs(s)' => slot' = s /\ entry' = s
  BY <1>0, <1>4 DEF CInv, Controlled, Segments
<1>6. ASSUME NEW s \in Segments, Live(s)' PROVE Authorized(s)' /\ call'.state # "ended" /\ call'.provider = s
  <2>1. Live(s) /\ Runs(s)' /\ s \notin C
    BY <1>1, <1>4, <1>6 DEF Live, Runs
  <2>2. ~Revoked
    BY <1>4, <2>1
  <2> QED
    BY <1>1, <2>1, <2>2 DEF CInv, Controlled, Revoked, Authorized, Controls
<1>7. ASSUME NEW s \in Segments, Starting(s)', seg'[s].closing PROVE ~Authorized(s)' \/ call'.state = "ended"
  <2>1. Starting(s) /\ seg[s].auth <= consent /\ seg[s].epoch <= call.epoch
    BY <1>1, <1>7 DEF Starting, CInv, Controlled
  <2>2. CASE seg[s].closing
    BY <1>0, <1>1, <2>1, <2>2 DEF CInv, Controlled, Authorized, Controls
  <2>3. CASE ~seg[s].closing
    BY <1>0, <1>1, <1>7, <2>1, <2>3 DEF Authorized, Controls
  <2> QED
    BY <2>2, <2>3
<1>8. \A s \in Segments : seg'[s].auth <= consent' /\ seg'[s].epoch <= call'.epoch
  BY <1>0, <1>1 DEF CInv, Controlled
<1>9. /\ \A s \in Segments : s \in call'.known => seg'[s].stage \in {"live", "gone"}
      /\ \A s \in Segments : seg'[s].stage = "gone" => seg'[s].closing
      /\ \A c \in checks' : seg'[c.seg].stage \in {"live", "gone"}
  BY <1>1 DEF CInv, Controlled
<1> QED
  BY <1>2, <1>3, <1>5, <1>6, <1>7, <1>8, <1>9 DEF CInv, Controlled

\* A step that leaves the call and the segments alone.
IdleChecks ==
  \A c \in checks' : /\ c = [seg |-> c.seg, of |-> c.of, explicit |-> c.explicit, waited |-> c.waited]
                     /\ c.seg \in Segments /\ seg[c.seg].stage \in {"live", "gone"}

\* The requests that wait for a check stay what they are, waited for or not.
LEMMA SomeChecks == ASSUME CInv, checks' \subseteq checks PROVE IdleChecks
BY DEF IdleChecks, CInv, Controlled, ControlTypes

\* A command that abandons the checks leaves none that could replace a segment.
LEMMA AbandonedChecks == ASSUME CInv, checks' = Abandoned PROVE IdleChecks
<1> SUFFICES ASSUME NEW d \in checks', NEW c \in checks, d = [c EXCEPT !.waited = FALSE]
             PROVE  /\ d = [seg |-> d.seg, of |-> d.of, explicit |-> d.explicit, waited |-> d.waited]
                    /\ d.seg \in Segments /\ seg[d.seg].stage \in {"live", "gone"}
  BY DEF IdleChecks, Abandoned
<1>1. c = [seg |-> c.seg, of |-> c.of, explicit |-> c.explicit, waited |-> c.waited]
      /\ c.seg \in Segments /\ seg[c.seg].stage \in {"live", "gone"}
  BY DEF CInv, Controlled, ControlTypes
<1>2. d = [seg |-> c.seg, of |-> c.of, explicit |-> c.explicit, waited |-> FALSE]
  BY <1>1
<1> QED
  BY <1>1, <1>2

\* An event of the call that takes it from nobody, or nothing at all.
LEMMA SteadyKeeps ==
  ASSUME CInv, Steady(call, call'), IdleChecks, UNCHANGED <<seg, slot, entry, consent, hold, record, provider>>
  PROVE  CInv'
<1>1. ClosesOnly({})
  BY ClosesNone DEF CInv, Controlled
<1>2. call.epoch \in Nat /\ consent \in Nat
  BY DEF CInv, Controlled, ControlTypes, Lifecycle
<1>3. ~Revoked
  BY DEF Revoked, Steady
<1> QED
  BY <1>1, <1>2, <1>3, CloseKeeps DEF Steady, IdleChecks, money

\* The entry of a segment is closed by an event that ends the call only when it
\* closes what runs.
LEMMA CloseEntryKeeps ==
  ASSUME CInv, NEW s \in Segments, seg[s].stage \in {"live", "gone"}, NEW after, CloseEntry(s, after),
         Steady(call, after) \/ after = EndCall(call), IdleChecks,
         UNCHANGED <<entry, consent, hold, record, provider>>
  PROVE  CInv'
<1>0. call \in Lifecycle /\ call.epoch \in Nat /\ consent \in Nat /\ seg[s].closing \in BOOLEAN
      /\ seg[s].stage \in Stages
  BY DEF CInv, Controlled, ControlTypes, Lifecycle, Segment
<1>1. ClosesOnly({s})
  BY ClosedDoes DEF CloseEntry, CInv, Controlled
<1>2. slot' = slot \/ (slot' = 0 /\ slot \in {s} \cup {0})
  BY DEF CloseEntry, NotOwn
<1>3. /\ call' \in Lifecycle /\ call'.provider = call.provider /\ call'.known = call.known /\ call'.epoch = call.epoch
      /\ call.state = "ended" => call'.state = "ended"
  BY <1>0, SteadyEvents, EndCallDoes DEF CloseEntry, Steady
<1>4. Revoked => \A u \in Segments : Runs(u) => u \in {s}
  <2>1. SUFFICES ASSUME Revoked, NEW u \in Segments, Runs(u) PROVE u = s
    OBVIOUS
  <2>2. ~seg[s].closing \/ call.state # call'.state
    BY <2>1, <1>3 DEF CloseEntry, Revoked
  <2>3. ~seg[s].closing
    BY <2>2 DEF CloseEntry
  <2>4. seg[s].stage = "live"
    BY <2>3 DEF CInv, Controlled
  <2> QED
    BY <2>1, <2>3, <2>4 DEF Runs, CInv, Controlled
<1>5. ~Starting(s) /\ call'.epoch >= call.epoch /\ consent' = consent
  BY <1>0, <1>3 DEF Starting
<1> QED
  BY <1>0, <1>1, <1>2, <1>3, <1>4, <1>5, CloseKeeps DEF IdleChecks, money

-----------------------------------------------------------------------------
(* Starting and ending segments *)

\* One segment comes to another stage.
LEMMA MoveDoes ==
  ASSUME ControlTypes, NEW s \in Segments, NEW to \in Stages, seg' = [seg EXCEPT ![s].stage = to]
  PROVE  /\ seg' \in [Segments -> Segment]
         /\ seg'[s].stage = to /\ seg'[s].epoch = seg[s].epoch /\ seg'[s].auth = seg[s].auth
         /\ seg'[s].closing = seg[s].closing
         /\ \A u \in Segments : u # s => seg'[u] = seg[u]
<1> DEFINE e == [seg[s] EXCEPT !.stage = to]
<1>1. seg \in [Segments -> Segment] /\ seg[s] \in Segment
  BY DEF ControlTypes
<1>2. e \in Segment /\ e.stage = to /\ e.epoch = seg[s].epoch /\ e.auth = seg[s].auth /\ e.closing = seg[s].closing
  BY <1>1 DEF Segment
<1>3. seg' = [seg EXCEPT ![s] = e]
  BY <1>1
<1> HIDE DEF e
<1> QED
  BY <1>1, <1>2, <1>3

\* A start goes on.
LEMMA StartGoesOn ==
  ASSUME Controlled, NEW s \in Segments, Starting(s),
         NEW to \in {"opening", "consumed", "dispatched"}, seg' = [seg EXCEPT ![s].stage = to],
         UNCHANGED <<call, slot, entry, checks, consent>>
  PROVE  Controlled'
<1>1. /\ seg' \in [Segments -> Segment]
      /\ seg'[s].stage = to /\ seg'[s].epoch = seg[s].epoch /\ seg'[s].auth = seg[s].auth
      /\ seg'[s].closing = seg[s].closing
      /\ \A u \in Segments : u # s => seg'[u] = seg[u]
  BY MoveDoes DEF Controlled, Stages
<1>2. ControlTypes'
  BY <1>1 DEF Controlled, ControlTypes
<1>3. \A u \in Segments : /\ Runs(u)' => Runs(u)
                          /\ Live(u)' => Live(u) /\ u # s
                          /\ Starting(u)' => Starting(u)
                          /\ Authorized(u)' <=> Authorized(u)
                          /\ seg'[u].closing = seg[u].closing /\ seg'[u].auth = seg[u].auth /\ seg'[u].epoch = seg[u].epoch
  BY <1>1 DEF Runs, Live, Starting, Authorized, Controls
<1>4. \A c \in checks : c.seg # s
  BY DEF Controlled, Starting
<1> QED
  BY <1>1, <1>2, <1>3, <1>4 DEF Controlled, ControlTypes, Starting

\* The start connects, or is refused, or the segment is gone; nothing of it runs
\* unless it is connected.
LEMMA SegmentLeaves ==
  ASSUME Controlled, NEW s \in Segments, seg' \in [Segments -> Segment],
         \A u \in Segments : u # s => seg'[u] = seg[u],
         seg'[s].stage \in {"live", "gone"}, seg'[s].closing, seg'[s].auth = seg[s].auth, seg'[s].epoch <= seg[s].epoch,
         call' = call \/ (Runs(s) /\ call' = EndCall(call)),
         slot' = slot \/ slot' = NotOwn(slot, s), entry' = entry \/ entry' = NotOwn(entry, s),
         UNCHANGED <<checks, consent>>
  PROVE  Controlled'
<1>0. /\ call \in Lifecycle /\ slot \in 0..MaxSegments /\ entry \in 0..MaxSegments
      /\ MaxSegments \in Nat /\ seg[s].epoch \in Nat /\ seg'[s].epoch \in Nat /\ call.epoch \in Nat
  BY CallAssumption DEF Controlled, ControlTypes, Segment, Lifecycle
<1>1. /\ call' \in Lifecycle /\ call'.provider = call.provider /\ call'.known = call.known /\ call'.epoch = call.epoch
      /\ call.state = "ended" => call'.state = "ended"
      /\ call'.state = "ended" /\ call.state # "ended" => Runs(s)
  BY <1>0, EndCallDoes
<1>2. slot' \in 0..MaxSegments /\ entry' \in 0..MaxSegments
  BY <1>0 DEF NotOwn
<1>3. ControlTypes'
  BY <1>1, <1>2 DEF Controlled, ControlTypes
<1>4. ~Runs(s)' /\ ~Live(s)' /\ ~Starting(s)'
  BY DEF Runs, Live, Starting
<1>5. \A u \in Segments : u # s => /\ Runs(u)' <=> Runs(u)
                                   /\ Live(u)' <=> Live(u)
                                   /\ Starting(u)' <=> Starting(u)
                                   /\ Authorized(u)' <=> Authorized(u)
  BY <1>1 DEF Runs, Live, Starting, Authorized, Controls
<1>6. \A u \in Segments : Runs(u)' => slot' = u /\ entry' = u
  BY <1>4, <1>5 DEF Controlled, NotOwn
<1>7. ASSUME NEW u \in Segments, Live(u)' PROVE Authorized(u)' /\ call'.state # "ended" /\ call'.provider = u
  <2>1. u # s /\ Live(u) /\ Runs(u)
    BY <1>4, <1>5, <1>7 DEF Live, Runs
  <2>2. ~Runs(s)
    BY <2>1 DEF Controlled
  <2> QED
    BY <1>1, <1>5, <2>1, <2>2 DEF Controlled
<1>8. \A u \in Segments : Starting(u)' /\ seg'[u].closing => ~Authorized(u)' \/ call'.state = "ended"
  BY <1>1, <1>4, <1>5 DEF Controlled
<1>9. \A u \in Segments : seg'[u].auth <= consent' /\ seg'[u].epoch <= call'.epoch
  BY <1>0, <1>1 DEF Controlled
<1> QED
  BY <1>1, <1>3, <1>6, <1>7, <1>8, <1>9 DEF Controlled, ControlTypes

\* The entry of a segment that is gone.
LEMMA GoneDoes ==
  ASSUME ControlTypes, NEW s \in Segments
  PROVE  LET e == [NoSegment EXCEPT !.stage = "gone", !.closing = TRUE, !.auth = seg[s].auth] IN
         /\ Gone(s) = [seg EXCEPT ![s] = e] /\ Gone(s) \in [Segments -> Segment] /\ Gone(s)[s] = e
         /\ e \in Segment /\ e.stage = "gone" /\ e.closing = TRUE /\ e.auth = seg[s].auth /\ e.epoch = 0
<1>1. seg \in [Segments -> Segment] /\ seg[s].auth \in Nat /\ 0 \in 0..MaxSegments
  BY CallAssumption DEF ControlTypes, Segment
<1> DEFINE a == seg[s].auth
           e == [NoSegment EXCEPT !.stage = "gone", !.closing = TRUE, !.auth = a]
<1>a. a \in Nat
  BY <1>1
<1> HIDE DEF a
<1>b. NoSegment \in Segment /\ NoSegment.epoch = 0
  BY <1>1 DEF NoSegment, Segment, Stages
<1>2. e.stage = "gone" /\ e.closing = TRUE /\ e.auth = a /\ e.epoch = 0
  BY <1>b DEF Segment
<1>3. e \in Segment
  BY <1>a, <1>b DEF Segment, Stages
<1> QED
  BY <1>1, <1>2, <1>3 DEF Gone, a

\* A new segment takes the slot, and with it the commands of the call.
LEMMA EnterKeeps ==
  ASSUME CInv, NEW s \in Segments, NEW entries, NEW C \in SUBSET Segments, NEW replaces \in 0..MaxSegments,
         Enter(entries, s, replaces), entries \in [Segments -> Segment],
         \A u \in Segments : /\ entries[u].stage = seg[u].stage /\ entries[u].epoch = seg[u].epoch /\ entries[u].auth = seg[u].auth
                             /\ entries[u].closing = (seg[u].closing \/ u \in C),
         \A u \in C : ~Starting(u), slot \in C \cup {0},
         Steady(call, call'), checks' \subseteq checks, UNCHANGED <<consent, hold, record, provider>>
  PROVE  CInv'
<1> DEFINE e == [stage |-> "admitting", closing |-> FALSE, epoch |-> call.epoch, auth |-> consent, replaces |-> replaces]
<1>0. /\ seg[s].stage = "none" /\ seg' = [entries EXCEPT ![s] = e]
      /\ slot' = s /\ entry' = s
  BY DEF Enter, Unused
<1>1. /\ call \in Lifecycle /\ call.epoch \in Nat /\ consent \in Nat /\ MaxSegments \in Nat
      /\ \A u \in Segments : seg[u].epoch \in Nat /\ seg[u].auth \in Nat /\ seg[u].closing \in BOOLEAN
  BY CallAssumption DEF CInv, Controlled, ControlTypes, Lifecycle, Segment
<1>2. e \in Segment /\ e.stage = "admitting" /\ e.closing = FALSE /\ e.epoch = call.epoch /\ e.auth = consent
  BY <1>1 DEF Segment, Stages
<1> HIDE DEF e
<1>3. seg' \in [Segments -> Segment] /\ seg'[s] = e /\ \A u \in Segments : u # s => seg'[u] = entries[u]
  BY <1>0, <1>2
<1>4. \A u \in Segments : u # s => /\ seg'[u].stage = seg[u].stage /\ seg'[u].epoch = seg[u].epoch /\ seg'[u].auth = seg[u].auth
                                   /\ seg'[u].closing <=> (seg[u].closing \/ u \in C)
  BY <1>3
<1>5. \A u \in Segments : u # s => ~Runs(u)'
  <2> SUFFICES ASSUME NEW u \in Segments, u # s, Runs(u)' PROVE FALSE
    OBVIOUS
  <2>1. Runs(u) /\ u \notin C
    BY <1>4 DEF Runs, Starting
  <2>2. slot = u
    BY <2>1 DEF CInv, Controlled
  <2>3. u # 0
    BY <1>1 DEF Segments
  <2> QED
    BY <2>1, <2>2, <2>3
<1>6. HeldFor'
  <2>1. \A u \in Segments : \/ seg'[u].stage = seg[u].stage
                            \/ seg[u].stage = "none" /\ seg'[u].stage = "admitting"
    BY <1>0, <1>2, <1>3, <1>4
  <2> QED
    BY <2>1, HeldKept DEF CInv, money
<1>7. ControlTypes'
  <2>1. slot' \in 0..MaxSegments /\ entry' \in 0..MaxSegments
    BY <1>0, <1>1 DEF Segments
  <2> QED
    BY <1>3, <2>1 DEF CInv, Controlled, ControlTypes, Steady
<1>8. ~Live(s)' /\ \A u \in Segments : Live(u)' => Runs(u)'
  BY <1>2, <1>3 DEF Live, Runs
<1>9. ASSUME NEW u \in Segments, Starting(u)', seg'[u].closing PROVE ~Authorized(u)' \/ call'.state = "ended"
  <2>1. u # s
    BY <1>2, <1>3, <1>9
  <2>2. Starting(u) /\ u \notin C /\ seg[u].closing
    BY <1>4, <1>9, <2>1 DEF Starting
  <2> QED
    BY <1>4, <2>1, <2>2 DEF CInv, Controlled, Authorized, Controls, Steady
<1>10. \A u \in Segments : seg'[u].auth <= consent' /\ seg'[u].epoch <= call'.epoch
  <2>1. seg'[s].auth = consent /\ seg'[s].epoch = call.epoch
    BY <1>2, <1>3
  <2> QED
    BY <1>1, <1>4, <2>1 DEF CInv, Controlled, Steady
<1>11. \A u \in Segments : u \in call'.known => seg'[u].stage \in {"live", "gone"}
  BY <1>0, <1>4 DEF CInv, Controlled, Steady
<1>12. \A u \in Segments : seg'[u].stage = "gone" => seg'[u].closing
  BY <1>2, <1>3, <1>4 DEF CInv, Controlled
<1>13. \A c \in checks' : c.seg # s /\ seg'[c.seg].stage \in {"live", "gone"}
  BY <1>0, <1>4 DEF CInv, Controlled, ControlTypes
<1> QED
  BY <1>0, <1>5, <1>6, <1>7, <1>8, <1>9, <1>10, <1>11, <1>12, <1>13 DEF CInv, Controlled

-----------------------------------------------------------------------------
(* Every command and every answer keeps the invariant *)

\* The minutes reserved are a finite set of segments.
LEMMA ReservedFinite ==
  /\ IsFiniteSet(Reserved) /\ Cardinality(Reserved) \in Nat
  /\ \A S \in SUBSET Reserved : Cardinality(S) <= Cardinality(Reserved)
<1>1. IsFiniteSet(Segments)
  BY CallAssumption, FS_Interval DEF Segments
<1>2. Reserved \in SUBSET Segments
  BY DEF Reserved
<1>3. IsFiniteSet(Reserved)
  BY <1>1, <1>2, FS_Subset
<1> QED
  BY <1>3, FS_Subset, FS_CardinalityType

\* What a segment holds is settled, or kept, when it is gone.
LEMMA SettleKeeps ==
  ASSUME HeldFor, NEW s \in Segments, NEW confirmed \in BOOLEAN, Settle(s, confirmed),
         seg[s].stage \in Stages \ {"gone"}, seg'[s].stage = "gone", \A u \in Segments : u # s => seg'[u] = seg[u]
  PROVE  HeldFor'
<1>0. /\ hold \in [Segments -> Holds] /\ provider \in [Segments -> {"none", "open", "closed"}]
      /\ record \in [Segments -> {"none", "saved", "unconfirmed", "final"}]
  BY DEF HeldFor, HoldTypes
<1>1. /\ hold'[s] = IF hold[s] = "none" THEN "none" ELSE IF hold[s] = "sent" /\ ~confirmed THEN "kept" ELSE "settled"
      /\ record'[s] = IF record[s] = "none" THEN "none" ELSE IF confirmed THEN "final" ELSE "unconfirmed"
      /\ provider'[s] = IF provider[s] = "open" /\ confirmed THEN "closed" ELSE provider[s]
      /\ \A u \in Segments : u # s => hold'[u] = hold[u] /\ record'[u] = record[u] /\ provider'[u] = provider[u]
  BY <1>0 DEF Settle
<1>2. hold' \in [Segments -> Holds]
  <2>1. (IF hold[s] = "none" THEN "none" ELSE IF hold[s] = "sent" /\ ~confirmed THEN "kept" ELSE "settled") \in Holds
    BY DEF Holds
  <2> QED
    BY <1>0, <2>1 DEF Settle
<1>3. record' \in [Segments -> {"none", "saved", "unconfirmed", "final"}]
  BY <1>0 DEF Settle
<1>4. provider' \in [Segments -> {"none", "open", "closed"}]
  BY <1>0 DEF Settle
<1>5. HoldOf(s) /\ seg[s].stage # "gone"
  BY DEF HeldFor
<1>6. hold[s] \in {"none", "held", "sent", "settled", "kept"} /\ (provider[s] = "open" => hold[s] \in {"sent", "kept"})
  BY <1>0, <1>5 DEF Holds, HoldOf
<1>7. provider'[s] = "open" => hold'[s] \in {"sent", "kept"}
  <2>1. hold[s] # "kept" \/ provider[s] # "open"
    BY <1>5 DEF HoldOf, Stages
  <2> QED
    BY <1>1, <1>6, <2>1
<1>8. HoldOf(s)'
  BY <1>0, <1>1, <1>7 DEF HoldOf
<1>9. \A u \in Segments : u # s => HoldOf(u)'
  BY <1>1 DEF HeldFor, HoldOf
<1>10. Reserved' \in SUBSET Reserved
  BY <1>1, <1>6 DEF Reserved
<1>11. Cardinality(Reserved') <= Minutes
  <2>1. Cardinality(Reserved') <= Cardinality(Reserved) /\ Cardinality(Reserved) \in Nat
    BY <1>10, ReservedFinite
  <2>2. Cardinality(Reserved') \in Nat
    BY <1>10, ReservedFinite, FS_Subset, FS_CardinalityType
  <2> QED
    BY <2>1, <2>2, CallAssumption DEF HeldFor
<1> QED
  BY <1>2, <1>3, <1>4, <1>8, <1>9, <1>11 DEF HeldFor, HoldTypes

\* admitVoice, within the minutes.
LEMMA AdmitKeeps == ASSUME CInv, NEW s \in Segments, Admit(s) PROVE CInv'
<1>0. /\ seg[s].stage = "admitting" /\ seg' = [seg EXCEPT ![s].stage = "opening"]
      /\ Cardinality(Reserved) < Minutes /\ hold' = [hold EXCEPT ![s] = "held"]
      /\ UNCHANGED <<call, consent, record, provider, slot, entry, checks>>
  BY DEF Admit, Move
<1>1. Controlled'
  BY <1>0, StartGoesOn DEF CInv, Starting
<1>2. /\ seg'[s].stage = "opening" /\ \A u \in Segments : u # s => seg'[u] = seg[u]
  BY <1>0, MoveDoes DEF CInv, Controlled, Stages
<1>3. HoldTypes
  BY DEF CInv, HeldFor
<1>4. hold' \in [Segments -> Holds] /\ hold'[s] = "held" /\ \A u \in Segments : u # s => hold'[u] = hold[u]
  <2>1. "held" \in Holds
    BY DEF Holds
  <2> QED
    BY <1>0, <1>3, <2>1 DEF HoldTypes
<1>5. \A u \in Segments : HoldOf(u)'
  <2>1. \A u \in Segments : HoldOf(u)
    BY DEF CInv, HeldFor
  <2> QED
    BY <1>0, <1>2, <1>4, <2>1 DEF HoldOf
<1>6. Reserved' = Reserved \cup {s}
  BY <1>4 DEF Reserved
<1>7. Cardinality(Reserved') <= Minutes
  <2>1. s \notin Reserved
    BY <1>0 DEF CInv, HeldFor, HoldOf, Reserved
  <2>2. Cardinality(Reserved') = Cardinality(Reserved) + 1
    BY <1>6, <2>1, ReservedFinite, FS_AddElement
  <2> QED
    BY <1>0, <2>2, ReservedFinite, CallAssumption
<1> QED
  BY <1>0, <1>1, <1>3, <1>4, <1>5, <1>7 DEF CInv, HeldFor, HoldTypes

\* Consuming the claim turns the reservation into a use of the provider.
LEMMA ConsumeKeeps == ASSUME CInv, NEW s \in Segments, Consume(s) PROVE CInv'
<1>0. /\ seg[s].stage = "opening" /\ seg' = [seg EXCEPT ![s].stage = "consumed"]
      /\ hold' = [hold EXCEPT ![s] = "sent"] /\ provider' \in {provider, [provider EXCEPT ![s] = "open"]}
      /\ UNCHANGED <<call, consent, record, slot, entry, checks>>
  BY DEF Consume, Move
<1>1. Controlled'
  BY <1>0, StartGoesOn DEF CInv, Starting
<1>2. /\ seg'[s].stage = "consumed" /\ \A u \in Segments : u # s => seg'[u] = seg[u]
  BY <1>0, MoveDoes DEF CInv, Controlled, Stages
<1>3. HoldTypes
  BY DEF CInv, HeldFor
<1>4. hold' \in [Segments -> Holds] /\ hold'[s] = "sent" /\ \A u \in Segments : u # s => hold'[u] = hold[u]
  <2>1. "sent" \in Holds
    BY DEF Holds
  <2> QED
    BY <1>0, <1>3, <2>1 DEF HoldTypes
<1>5. provider' \in [Segments -> {"none", "open", "closed"}] /\ \A u \in Segments : u # s => provider'[u] = provider[u]
  BY <1>0, <1>3 DEF HoldTypes
<1>6. \A u \in Segments : HoldOf(u)
  BY DEF CInv, HeldFor
<1>7. \A u \in Segments : HoldOf(u)'
  BY <1>0, <1>2, <1>4, <1>5, <1>6 DEF HoldOf
<1>8. Reserved' = Reserved
  BY <1>0, <1>4, <1>6 DEF Reserved, HoldOf
<1> QED
  BY <1>0, <1>1, <1>3, <1>4, <1>5, <1>7, <1>8 DEF CInv, HeldFor, HoldTypes

\* The segment is dispatched and its row saved.
LEMMA DispatchKeeps == ASSUME CInv, NEW s \in Segments, Dispatch(s) PROVE CInv'
<1>0. /\ seg[s].stage = "consumed" /\ seg' = [seg EXCEPT ![s].stage = "dispatched"]
      /\ provider' = [provider EXCEPT ![s] = "open"] /\ record' = [record EXCEPT ![s] = "saved"]
      /\ UNCHANGED <<call, consent, hold, slot, entry, checks>>
  BY DEF Dispatch, Move
<1>1. Controlled'
  BY <1>0, StartGoesOn DEF CInv, Starting
<1>2. /\ seg'[s].stage = "dispatched" /\ \A u \in Segments : u # s => seg'[u] = seg[u]
  BY <1>0, MoveDoes DEF CInv, Controlled, Stages
<1>3. HoldTypes
  BY DEF CInv, HeldFor
<1>4. /\ record' \in [Segments -> {"none", "saved", "unconfirmed", "final"}] /\ record'[s] = "saved"
      /\ provider' \in [Segments -> {"none", "open", "closed"}]
      /\ \A u \in Segments : u # s => record'[u] = record[u] /\ provider'[u] = provider[u]
  BY <1>0, <1>3 DEF HoldTypes
<1>5. \A u \in Segments : HoldOf(u)
  BY DEF CInv, HeldFor
<1>6. \A u \in Segments : HoldOf(u)'
  BY <1>0, <1>2, <1>4, <1>5 DEF HoldOf
<1>7. Reserved' = Reserved
  BY <1>0 DEF Reserved
<1> QED
  BY <1>0, <1>1, <1>3, <1>4, <1>6, <1>7 DEF CInv, HeldFor, HoldTypes

\* Connected while it controls the call, the segment is the one of the call; closed
\* meanwhile, it does not control it.
LEMMA ConnectKeeps == ASSUME CInv, NEW s \in Segments, Connect(s) PROVE CInv'
<1>0. /\ seg[s].stage = "dispatched" /\ seg' = [seg EXCEPT ![s].stage = "live"]
      /\ seg[s].epoch = call.epoch /\ seg[s].auth = consent /\ call.state # "ended"
      /\ call' = PauseIf(Connected(call, call.epoch, s, consent))
      /\ UNCHANGED <<consent, hold, record, provider, slot, entry, checks>>
  BY DEF Connect, Move, Authorized, Controls
<1>1. /\ seg' \in [Segments -> Segment]
      /\ seg'[s].stage = "live" /\ seg'[s].epoch = seg[s].epoch /\ seg'[s].auth = seg[s].auth
      /\ seg'[s].closing = seg[s].closing
      /\ \A u \in Segments : u # s => seg'[u] = seg[u]
  BY <1>0, MoveDoes DEF CInv, Controlled, Stages
<1>2. s \notin call.known /\ call \in Lifecycle /\ consent \in Nat /\ s \in Nat
  BY <1>0 DEF CInv, Controlled, ControlTypes, Segments
<1>3. /\ call' \in Lifecycle /\ call'.state # "ended"
      /\ call'.provider = s /\ call'.known = call.known \cup {s} /\ call'.epoch = call.epoch
  BY <1>0, <1>2, ConnectedDoes
<1>4. HeldFor'
  BY <1>0, <1>1, HeldKept DEF CInv, money
<1>5. ControlTypes'
  BY <1>0, <1>1, <1>3 DEF CInv, Controlled, ControlTypes
<1>6. Runs(s) /\ ~seg[s].closing
  BY <1>0 DEF CInv, Controlled, Starting, Runs, Authorized, Controls
<1>7. \A u \in Segments : u # s => ~Runs(u)
  BY <1>6 DEF CInv, Controlled
<1>8. \A u \in Segments : /\ Runs(u)' <=> Runs(u)
                          /\ Live(u)' => Runs(u)'
                          /\ Starting(u)' => Starting(u)
                          /\ Authorized(u)' <=> Authorized(u)
                          /\ seg'[u].closing = seg[u].closing /\ seg'[u].auth = seg[u].auth /\ seg'[u].epoch = seg[u].epoch
  BY <1>0, <1>1, <1>3 DEF Runs, Live, Starting, Authorized, Controls
<1>9. \A u \in Segments : Live(u)' => Authorized(u)' /\ call'.state # "ended" /\ call'.provider = u
  BY <1>0, <1>3, <1>7, <1>8 DEF Authorized, Controls
<1>10. \A u \in Segments : Starting(u)' /\ seg'[u].closing => ~Authorized(u)' \/ call'.state = "ended"
  BY <1>0, <1>8 DEF CInv, Controlled
<1>11. \A u \in Segments : u \in call'.known => seg'[u].stage \in {"live", "gone"}
  BY <1>1, <1>3 DEF CInv, Controlled
<1>12. \A c \in checks' : seg'[c.seg].stage \in {"live", "gone"}
  BY <1>0, <1>1 DEF CInv, Controlled, ControlTypes
<1>13. \A u \in Segments : seg'[u].stage = "gone" => seg'[u].closing
  BY <1>1 DEF CInv, Controlled
<1>14. /\ \A u \in Segments : Runs(u)' => slot' = u /\ entry' = u
       /\ \A u \in Segments : seg'[u].auth <= consent' /\ seg'[u].epoch <= call'.epoch
  BY <1>0, <1>3, <1>8 DEF CInv, Controlled
<1> QED
  BY <1>4, <1>5, <1>9, <1>10, <1>11, <1>12, <1>13, <1>14 DEF CInv, Controlled

\* A start refused after its await closes the call it no longer serves.
LEMMA RefuseKeeps == ASSUME CInv, NEW s \in Segments, Refuse(s) PROVE CInv'
<1> DEFINE e == [seg[s] EXCEPT !.stage = "live", !.closing = TRUE]
<1>0. /\ seg[s].stage = "dispatched" /\ seg' = [seg EXCEPT ![s] = e]
      /\ call' = IF seg[s].closing THEN call ELSE EndCall(call)
      /\ slot' = NotOwn(slot, s) /\ entry' = NotOwn(entry, s)
      /\ UNCHANGED <<consent, hold, record, provider, checks>>
  <2>1. seg \in [Segments -> Segment]
    BY DEF CInv, Controlled, ControlTypes
  <2> QED
    BY <2>1 DEF Refuse
<1>1. seg \in [Segments -> Segment] /\ seg[s] \in Segment
  BY DEF CInv, Controlled, ControlTypes
<1>2. e \in Segment /\ e.stage = "live" /\ e.closing = TRUE /\ e.auth = seg[s].auth /\ e.epoch = seg[s].epoch
      /\ seg[s].epoch \in Nat
  BY <1>1 DEF Segment, Stages
<1> HIDE DEF e
<1>3. seg' \in [Segments -> Segment] /\ seg'[s] = e /\ \A u \in Segments : u # s => seg'[u] = seg[u]
  BY <1>0, <1>1, <1>2
<1>4. ~seg[s].closing => Runs(s)
  BY <1>0 DEF Runs, Starting
<1>5. Controlled'
  BY <1>0, <1>2, <1>3, <1>4, SegmentLeaves DEF CInv
<1>6. HeldFor'
  BY <1>0, <1>2, <1>3, HeldKept DEF CInv, money
<1> QED
  BY <1>5, <1>6 DEF CInv

\* A segment that is gone, whatever the call is then.
LEMMA GoneKeeps ==
  ASSUME CInv, NEW s \in Segments, seg[s].stage \notin {"gone"}, seg' = Gone(s), NEW confirmed \in BOOLEAN,
         Settle(s, confirmed), slot' = NotOwn(slot, s), entry' = NotOwn(entry, s),
         UNCHANGED <<call, checks, consent>>
  PROVE  CInv'
<1> DEFINE e == [NoSegment EXCEPT !.stage = "gone", !.closing = TRUE, !.auth = seg[s].auth]
<1>1. /\ seg' = [seg EXCEPT ![s] = e] /\ seg' \in [Segments -> Segment] /\ seg'[s] = e
      /\ e.stage = "gone" /\ e.closing = TRUE /\ e.auth = seg[s].auth /\ e.epoch = 0
  BY GoneDoes DEF CInv, Controlled
<1> HIDE DEF e
<1>2. seg \in [Segments -> Segment] /\ seg[s].epoch \in Nat /\ seg[s].stage \in Stages
  BY DEF CInv, Controlled, ControlTypes, Segment
<1>3. \A u \in Segments : u # s => seg'[u] = seg[u]
  BY <1>1, <1>2
<1>4. Controlled'
  BY <1>1, <1>2, <1>3, SegmentLeaves DEF CInv
<1>5. HeldFor'
  BY <1>1, <1>2, <1>3, SettleKeeps DEF CInv
<1> QED
  BY <1>4, <1>5 DEF CInv

\* A segment whose start failed, or whose close was answered.
LEMMA EndsKeep ==
  ASSUME CInv, NEW s \in Segments, NEW confirmed \in BOOLEAN,
         StartFails(s, confirmed) \/ CloseSettles(s, confirmed)
  PROVE  CInv'
<1>1. CASE StartFails(s, confirmed)
  BY <1>1, GoneKeeps DEF StartFails, Starting
<1>2. CASE CloseSettles(s, confirmed)
  <2>1. seg[s].stage = "live" /\ seg[s].closing
    BY <1>2 DEF CloseSettles
  <2> DEFINE e == [NoSegment EXCEPT !.stage = "gone", !.closing = TRUE, !.auth = seg[s].auth]
  <2>2. /\ seg' = [seg EXCEPT ![s] = e] /\ seg' \in [Segments -> Segment] /\ seg'[s] = e
        /\ e.stage = "gone" /\ e.closing = TRUE /\ e.auth = seg[s].auth /\ e.epoch = 0
    BY <1>2, GoneDoes DEF CInv, Controlled, CloseSettles
  <2> HIDE DEF e
  <2>3. seg \in [Segments -> Segment] /\ seg[s].epoch \in Nat /\ seg[s].stage \in Stages
    BY DEF CInv, Controlled, ControlTypes, Segment
  <2>4. \A u \in Segments : u # s => seg'[u] = seg[u]
    BY <2>2, <2>3
  <2>5. HeldFor'
    BY <1>2, <2>1, <2>2, <2>3, <2>4, SettleKeeps DEF CInv, CloseSettles
  <2>6. Controlled'
    BY <1>2, <2>2, <2>3, <2>4, SegmentLeaves DEF CInv, CloseSettles
  <2> QED
    BY <2>5, <2>6 DEF CInv
<1> QED
  BY <1>1, <1>2

\* What the provider ends, and what is settled on its evidence.
LEMMA AfterwardsKeeps ==
  ASSUME CInv, NEW s \in Segments, ProviderEnds(s) \/ Reconcile(s)
  PROVE  CInv'
<1>0. UNCHANGED <<call, seg, slot, entry, checks, consent>>
  BY DEF ProviderEnds, Reconcile, process
<1>1. Controlled'
  <2>1. ControlTypes'
    BY <1>0 DEF CInv, Controlled, ControlTypes
  <2> QED
    BY <1>0, <2>1 DEF CInv, Controlled, Runs, Live, Starting, Authorized, Controls
<1>2. HoldTypes /\ \A u \in Segments : HoldOf(u)
  BY DEF CInv, HeldFor
<1>3. CASE ProviderEnds(s)
  <2>1. provider' = [provider EXCEPT ![s] = "closed"] /\ UNCHANGED <<hold, record>>
    BY <1>3 DEF ProviderEnds
  <2>2. provider' \in [Segments -> {"none", "open", "closed"}] /\ \A u \in Segments : provider'[u] = "open" => provider[u] = "open"
    BY <1>2, <2>1 DEF HoldTypes
  <2>3. \A u \in Segments : HoldOf(u)'
    BY <1>0, <1>2, <2>1, <2>2 DEF HoldOf
  <2>4. Reserved' = Reserved
    BY <2>1 DEF Reserved
  <2> QED
    BY <1>1, <1>2, <2>1, <2>2, <2>3, <2>4 DEF CInv, HeldFor, HoldTypes
<1>4. CASE Reconcile(s)
  <2>1. /\ record[s] = "unconfirmed" /\ provider[s] = "closed"
        /\ hold' = [hold EXCEPT ![s] = "settled"] /\ record' = [record EXCEPT ![s] = "final"] /\ provider' = provider
    BY <1>4 DEF Reconcile
  <2>2. /\ hold' \in [Segments -> Holds] /\ record' \in [Segments -> {"none", "saved", "unconfirmed", "final"}]
        /\ hold'[s] = "settled" /\ record'[s] = "final"
        /\ \A u \in Segments : u # s => hold'[u] = hold[u] /\ record'[u] = record[u]
    <3>1. "settled" \in Holds
      BY DEF Holds
    <3> QED
      BY <1>2, <2>1, <3>1 DEF HoldTypes
  <2>3. seg[s].stage = "gone"
    BY <1>2, <2>1 DEF HoldOf
  <2>4. \A u \in Segments : HoldOf(u)'
    BY <1>0, <1>2, <2>1, <2>2, <2>3 DEF HoldOf
  <2>5. Reserved' \in SUBSET Reserved
    BY <2>2 DEF Reserved
  <2>6. Cardinality(Reserved') <= Minutes
    <3>1. Cardinality(Reserved') <= Cardinality(Reserved) /\ Cardinality(Reserved) \in Nat /\ Cardinality(Reserved') \in Nat
      BY <2>5, ReservedFinite, FS_Subset, FS_CardinalityType
    <3> QED
      BY <3>1, CallAssumption DEF CInv, HeldFor
  <2> QED
    BY <1>1, <1>2, <2>1, <2>2, <2>4, <2>6 DEF CInv, HeldFor, HoldTypes
<1> QED
  BY <1>3, <1>4

\* The entry of the commands is a segment.
LEMMA EntryIs == ASSUME CInv PROVE EntryNow # 0 => EntryNow = entry /\ entry \in Segments
BY CallAssumption DEF CInv, Controlled, ControlTypes, EntryNow, Segments

\* A start takes a slot that nobody has.
LEMMA AfreshKeeps ==
  ASSUME CInv, NEW s \in Segments, slot = 0, Enter(seg, s, 0), Steady(call, call'),
         UNCHANGED <<consent, hold, record, provider, checks>>
  PROVE  CInv'
<1> DEFINE C == {}
<1>1. seg \in [Segments -> Segment] /\ \A u \in Segments : seg[u].closing = (seg[u].closing \/ u \in C)
  BY DEF CInv, Controlled, ControlTypes, Segment
<1>2. 0 \in 0..MaxSegments /\ C \in SUBSET Segments /\ slot \in C \cup {0} /\ checks' \subseteq checks
      /\ \A u \in C : ~Starting(u)
  BY CallAssumption
<1> HIDE DEF C
<1> QED
  BY <1>1, <1>2, EnterKeeps


\* A segment that begins becomes the one in the slot.
LEMMA BeginKeeps == ASSUME CInv, NEW s \in Segments, Begin(s) PROVE CInv'
<1>1. Steady(call, Start(call))
  BY SteadyEvents DEF CInv, Controlled, ControlTypes
<1> QED
  BY <1>1, AfreshKeeps DEF Begin

\* Commands and answers about a check.
LEMMA RecoverKeeps ==
  ASSUME CInv, NEW of, NEW explicit,
         \/ RecoverBusy(of, explicit) \/ RecoverAsk(of, explicit)
         \/ \E s \in Segments : RecoverAfresh(of, s, explicit)
  PROVE  CInv'
<1>0. Steady(call, call)
  BY SteadyEvents DEF CInv, Controlled, ControlTypes
<1>1. CASE RecoverBusy(of, explicit)
  <2>1. UNCHANGED <<call, seg, slot, entry, consent, hold, record, provider, checks>>
    BY <1>1 DEF RecoverBusy, serverVars, durable, process
  <2>2. IdleChecks
    BY <2>1, SomeChecks
  <2> QED
    BY <1>0, <2>1, <2>2, SteadyKeeps
<1>2. CASE RecoverAsk(of, explicit)
  <2> DEFINE n == [seg |-> EntryNow, of |-> of, explicit |-> explicit, waited |-> TRUE]
  <2>1. /\ EntryNow # 0 /\ seg[EntryNow].stage = "live" /\ checks' = checks \cup {n}
        /\ UNCHANGED <<call, seg, slot, entry, consent, hold, record, provider>>
    BY <1>2 DEF RecoverAsk, durable
  <2>2. /\ n = [seg |-> n.seg, of |-> n.of, explicit |-> n.explicit, waited |-> n.waited]
        /\ n.seg = EntryNow
    OBVIOUS
  <2>3. IdleChecks
    <3> HIDE DEF n
    <3> QED
      BY <2>1, <2>2, EntryIs DEF IdleChecks, CInv, Controlled, ControlTypes
  <2> QED
    BY <1>0, <2>1, <2>3, SteadyKeeps
<1>3. ASSUME NEW s \in Segments, RecoverAfresh(of, s, explicit) PROVE CInv'
  BY <1>0, <1>3, AfreshKeeps DEF RecoverAfresh, durable
<1> QED
  BY <1>1, <1>2, <1>3

\* The check of a recover request answers, fails or replaces the segment it found, which is closed
\* first.
LEMMA CheckStepKeeps ==
  ASSUME CInv, NEW c \in checks,
         CheckAnswers(c) \/ CheckConflicts(c) \/ CheckFails(c) \/ \E s \in Segments : CheckReplaces(c, s)
  PROVE  CInv'
<1>0. /\ call \in Lifecycle /\ Steady(call, call) /\ Steady(call, Resumable(call))
      /\ c.seg \in Segments /\ seg[c.seg].stage \in {"live", "gone"}
  BY SteadyEvents, ResumableSteady DEF CInv, Controlled, ControlTypes
<1>c. checks' = checks \ {c}
  BY DEF CheckAnswers, CheckConflicts, CheckFails, CheckReplaces
<1>i. IdleChecks
  BY <1>c, SomeChecks
<1>1. CASE CheckAnswers(c)
  BY <1>0, <1>1, <1>i, SteadyKeeps DEF CheckAnswers, durable
<1>2. CASE CheckConflicts(c)
  BY <1>0, <1>2, <1>i, CloseEntryKeeps DEF CheckConflicts
<1>3. CASE CheckFails(c)
  <2>1. CASE CloseEntry(c.seg, EndCall(call))
    BY <1>0, <1>3, <1>i, <2>1, CloseEntryKeeps DEF CheckFails
  <2>2. CASE UNCHANGED <<call, seg, slot, authority>>
    BY <1>0, <1>3, <1>i, <2>2, SteadyKeeps DEF CheckFails
  <2> QED
    BY <1>3, <2>1, <2>2 DEF CheckFails
<1>4. ASSUME NEW s \in Segments, CheckReplaces(c, s) PROVE CInv'
  <2> DEFINE entries == Closed(c.seg)
  <2>1. /\ NotOwn(slot, c.seg) = 0 /\ Steady(call, call') /\ Enter(entries, s, c.seg)
        /\ UNCHANGED <<consent, hold, record, provider>>
    BY <1>0, <1>4 DEF CheckReplaces
  <2>2. seg \in [Segments -> Segment] /\ seg[c.seg] \in Segment /\ \A u \in Segments : seg[u].closing \in BOOLEAN
    BY <1>0 DEF CInv, Controlled, ControlTypes, Segment
  <2> DEFINE e == [seg[c.seg] EXCEPT !.closing = TRUE]
  <2>3. e \in Segment /\ e.closing = TRUE /\ e.stage = seg[c.seg].stage /\ e.epoch = seg[c.seg].epoch /\ e.auth = seg[c.seg].auth
    BY <2>2 DEF Segment
  <2>4. entries = [seg EXCEPT ![c.seg] = e]
    BY <2>2 DEF Closed
  <2> HIDE DEF e
  <2>5. /\ entries \in [Segments -> Segment]
        /\ \A u \in Segments : /\ entries[u].stage = seg[u].stage /\ entries[u].epoch = seg[u].epoch /\ entries[u].auth = seg[u].auth
                               /\ entries[u].closing = (seg[u].closing \/ u \in {c.seg})
    BY <1>0, <2>2, <2>3, <2>4
  <2> HIDE DEF entries
  <2>6. slot \in {c.seg} \cup {0} /\ ~Starting(c.seg) /\ c.seg \in 0..MaxSegments
    BY <1>0, <2>1, CallAssumption DEF NotOwn, Starting, Segments
  <2> DEFINE C == {c.seg}
  <2>7. /\ C \in SUBSET Segments /\ slot \in C \cup {0} /\ checks' \subseteq checks
        /\ \A u \in C : ~Starting(u)
        /\ \A u \in Segments : /\ entries[u].stage = seg[u].stage /\ entries[u].epoch = seg[u].epoch /\ entries[u].auth = seg[u].auth
                               /\ entries[u].closing = (seg[u].closing \/ u \in C)
    BY <1>0, <1>c, <2>5, <2>6
  <2> HIDE DEF C
  <2> DEFINE k == c.seg
  <2>8. k \in 0..MaxSegments /\ Enter(entries, s, k)
    BY <2>1, <2>6
  <2> HIDE DEF k
  <2> QED
    BY <2>1, <2>5, <2>7, <2>8, EnterKeeps
<1> QED
  BY <1>1, <1>2, <1>3, <1>4

\* The lease of the live segment.
LEMMA LeaseKeeps == ASSUME CInv, NEW s \in Segments, LeaseExpires(s) PROVE CInv'
<1>1. Steady(call, call) /\ Steady(call, WaitFor(call, "waiting"))
  BY SteadyEvents DEF CInv, Controlled, ControlTypes
<1>2. Live(s) /\ UNCHANGED <<entry, consent, hold, record, provider, checks>>
      /\ CloseEntry(s, IF call.state = "waiting" THEN call ELSE WaitFor(call, "waiting"))
  BY DEF LeaseExpires
<1>3. IdleChecks
  BY <1>2, SomeChecks
<1> QED
  BY <1>1, <1>2, <1>3, CloseEntryKeeps DEF Live

\* Pausing and resuming take the call from nobody.
LEMMA PauseKeeps ==
  ASSUME CInv, \/ \E fenced : ResumeAsk(fenced)
               \/ ResumeSaves \/ ResumeAcks \/ ResumeFails
               \/ \E ofCall : PauseCall(ofCall)
  PROVE  CInv'
<1>1. Steady(call, call) /\ Steady(call, ResumeAcknowledged(call)) /\ Steady(call, HoldFor(call, "pause"))
  BY SteadyEvents DEF CInv, Controlled, ControlTypes
<1>2. Steady(call, call') /\ UNCHANGED <<seg, slot, entry, consent, hold, record, provider, checks>>
  BY <1>1 DEF ResumeAsk, ResumeSaves, ResumeAcks, ResumeFails, PauseCall, durable, process
<1>3. IdleChecks
  BY <1>2, SomeChecks
<1> QED
  BY <1>2, <1>3, SteadyKeeps

\* A pause the provider refuses ends the segment.
LEMMA PauseFailsKeeps == ASSUME CInv, PauseFails PROVE CInv'
<1>1. entry \in Segments /\ Live(entry) /\ CloseEntry(entry, EndCall(call))
      /\ UNCHANGED <<entry, consent, hold, record, provider, checks>>
  BY CallAssumption DEF PauseFails, CInv, Controlled, ControlTypes, Segments
<1>2. IdleChecks
  BY <1>1, SomeChecks
<1> QED
  BY <1>1, <1>2, CloseEntryKeeps DEF Live

\* The commands that leave open what becomes of the checks.
LEMMA CloseCommandKeeps == ASSUME CInv, NEW of, CloseCommand(of), IdleChecks PROVE CInv'
<1>1. call \in Lifecycle /\ Steady(call, call) /\ Steady(call, Resumable(call))
  BY SteadyEvents, ResumableSteady DEF CInv, Controlled, ControlTypes
<1>2. CASE EntryNow # 0 /\ EntryNow = of /\ seg[of].stage = "live"
  BY <1>1, <1>2, EntryIs, CloseEntryKeeps DEF CloseCommand
<1>3. CASE ~(EntryNow # 0 /\ EntryNow = of /\ seg[of].stage = "live")
  BY <1>1, <1>3, SteadyKeeps DEF CloseCommand
<1> QED
  BY <1>2, <1>3

\* A client that gave up closes its segment and waits for its person.
LEMMA ExhaustedKeeps == ASSUME CInv, NEW of, ExhaustedCommand(of), IdleChecks PROVE CInv'
<1> DEFINE c == IF call.provider = of THEN RecoveryExhausted(call) ELSE call
<1>1. call \in Lifecycle /\ call.epoch \in Nat /\ consent \in Nat /\ Steady(call, call)
  BY SteadyEvents DEF CInv, Controlled, ControlTypes, Lifecycle
<1>2. Steady(call, c)
  BY <1>1, ExhaustedSteady
<1>3. c \in Lifecycle
  BY <1>2 DEF Steady
<1> HIDE DEF c
<1>4. Steady(call, Resumable(c))
  BY <1>2, <1>3, ResumableSteady, SteadyTwice
<1>5. Steady(call, call') /\ UNCHANGED <<entry, consent, hold, record, provider>>
  BY <1>2, <1>4 DEF ExhaustedCommand, c
<1>6. CASE EntryNow # 0 /\ EntryNow = of /\ seg[of].stage = "live"
  <2>1. of \in Segments /\ seg' = Closed(of) /\ slot' = NotOwn(slot, of)
    BY <1>6, EntryIs DEF ExhaustedCommand
  <2>2. ClosesOnly({of})
    BY <2>1, ClosedDoes DEF CInv, Controlled
  <2>3. ~Revoked /\ ~Starting(of) /\ call'.epoch >= call.epoch /\ consent' >= consent /\ call' \in Lifecycle
        /\ (slot' = slot \/ (slot' = 0 /\ slot \in {of} \cup {0}))
    BY <1>1, <1>5, <1>6, <2>1 DEF Revoked, Steady, Starting, NotOwn
  <2> QED
    BY <1>1, <1>5, <2>1, <2>2, <2>3, CloseKeeps DEF Steady, IdleChecks, money
<1>7. CASE ~(EntryNow # 0 /\ EntryNow = of /\ seg[of].stage = "live")
  BY <1>5, <1>7, SteadyKeeps DEF ExhaustedCommand
<1> QED
  BY <1>6, <1>7

\* What runs has the commands of the call and its slot, and is closed with them.
LEMMA WhatRunsCloses ==
  ASSUME CInv, CloseWhatRuns
  PROVE  LET C == {entry} \cap Segments IN
         /\ ClosesOnly(C) /\ \A s \in Segments : Runs(s) => s \in C
         /\ slot' = slot \/ (slot' = 0 /\ slot \in C \cup {0})
<1>1. entry \in 0..MaxSegments /\ MaxSegments \in Nat
  BY CallAssumption DEF CInv, Controlled, ControlTypes
<1>2. \A s \in Segments : Runs(s) => s = entry
  BY DEF CInv, Controlled
<1>3. CASE entry # 0
  <2>1. entry \in Segments
    BY <1>1, <1>3 DEF Segments
  <2>2. {entry} \cap Segments = {entry}
    BY <2>1
  <2>3. seg' = Closed(entry) /\ slot' = NotOwn(slot, entry)
    BY <1>3 DEF CloseWhatRuns
  <2>4. ClosesOnly({entry})
    BY <2>1, <2>3, ClosedDoes DEF CInv, Controlled
  <2> QED
    BY <1>2, <2>2, <2>3, <2>4 DEF NotOwn
<1>4. CASE entry = 0
  <2>1. {entry} \cap Segments = {}
    BY <1>1, <1>4 DEF Segments
  <2>2. seg' = seg /\ slot' = slot
    BY <1>4 DEF CloseWhatRuns
  <2>3. ClosesOnly({})
    BY <2>2, ClosesNone DEF CInv, Controlled
  <2>4. \A s \in Segments : ~Runs(s)
    BY <1>1, <1>2, <1>4 DEF Segments
  <2> QED
    BY <2>1, <2>2, <2>3, <2>4
<1> QED
  BY <1>3, <1>4

\* A hang-up closes what runs.
LEMMA EndCommandKeeps == ASSUME CInv, EndCommand, IdleChecks PROVE CInv'
<1> DEFINE C == {entry} \cap Segments
<1>1. /\ call' = EndCall(call) /\ CloseWhatRuns /\ UNCHANGED <<consent, hold, record, provider, entry>>
      /\ call \in Lifecycle /\ call.epoch \in Nat /\ consent \in Nat
  BY DEF EndCommand, CInv, Controlled, ControlTypes, Lifecycle
<1>2. /\ ClosesOnly(C) /\ \A s \in Segments : Runs(s) => s \in C
      /\ slot' = slot \/ (slot' = 0 /\ slot \in C \cup {0})
  BY <1>1, WhatRunsCloses
<1>3. /\ call' \in Lifecycle /\ call'.state = "ended"
      /\ call'.provider = call.provider /\ call'.known = call.known /\ call'.epoch = call.epoch
  BY <1>1, EndCallDoes
<1>4. C \in SUBSET Segments /\ call'.epoch >= call.epoch /\ consent' >= consent /\ consent' \in Nat
  BY <1>1, <1>3
<1> HIDE DEF C
<1> QED
  BY <1>1, <1>2, <1>3, <1>4, CloseKeeps DEF IdleChecks, money

\* Another tab that takes the call over closes what runs under the earlier epoch.
LEMMA TakeOverKeeps == ASSUME CInv, TakeOver, IdleChecks PROVE CInv'
<1> DEFINE C == {entry} \cap Segments
<1>1. /\ call' = TakenOver(call) /\ call.state # "ended" /\ CloseWhatRuns /\ UNCHANGED <<consent, hold, record, provider, entry>>
      /\ call \in Lifecycle /\ call.epoch \in Nat /\ consent \in Nat
  BY DEF TakeOver, CInv, Controlled, ControlTypes, Lifecycle
<1>2. /\ ClosesOnly(C) /\ \A s \in Segments : Runs(s) => s \in C
      /\ slot' = slot \/ (slot' = 0 /\ slot \in C \cup {0})
  BY <1>1, WhatRunsCloses
<1>3. /\ call' \in Lifecycle
      /\ call'.provider = call.provider /\ call'.known = call.known /\ call'.epoch = call.epoch + 1
  BY <1>1, TakenOverDoes
<1>4. C \in SUBSET Segments /\ call'.epoch >= call.epoch /\ call'.epoch # call.epoch /\ consent' >= consent /\ consent' \in Nat
  BY <1>1, <1>3
<1> HIDE DEF C
<1> QED
  BY <1>1, <1>2, <1>3, <1>4, CloseKeeps DEF IdleChecks, money

\* A change of consent closes what has the slot; the settings change only while nothing has it.
LEMMA ConsentKeeps == ASSUME CInv, ChangeConsent \/ ChangeSettings PROVE CInv'
<1> DEFINE C == {slot} \cap Segments
<1>0. /\ call \in Lifecycle /\ call.epoch \in Nat /\ consent \in Nat /\ slot \in 0..MaxSegments /\ MaxSegments \in Nat
      /\ seg \in [Segments -> Segment]
  BY CallAssumption DEF CInv, Controlled, ControlTypes, Lifecycle
<1>1. /\ consent' = consent + 1 /\ slot' = 0 /\ seg' = IF slot # 0 THEN Closed(slot) ELSE seg
      /\ call' \in {call, EndCall(call)}
      /\ UNCHANGED <<hold, record, provider, entry, checks>>
  BY DEF ChangeConsent, ChangeSettings, process
<1>2. \A s \in Segments : Runs(s) => s \in C
  BY DEF CInv, Controlled
<1>3. ClosesOnly(C)
  <2>1. CASE slot = 0
    <3>1. C = {}
      BY <1>0, <2>1 DEF Segments
    <3> QED
      BY <1>1, <2>1, <3>1, ClosesNone DEF CInv, Controlled
  <2>2. CASE slot # 0
    <3>1. slot \in Segments /\ C = {slot}
      BY <1>0, <2>2 DEF Segments
    <3> QED
      BY <1>1, <2>2, <3>1, ClosedDoes DEF CInv, Controlled
  <2> QED
    BY <2>1, <2>2
<1>4. /\ call' \in Lifecycle
      /\ call.state = "ended" => call'.state = "ended"
      /\ call'.provider = call.provider /\ call'.known = call.known /\ call'.epoch = call.epoch
  BY <1>0, <1>1, EndCallDoes
<1>5. /\ C \in SUBSET Segments /\ call'.epoch >= call.epoch /\ consent' # consent /\ consent' >= consent /\ consent' \in Nat
      /\ slot' = 0 /\ slot \in C \cup {0}
  BY <1>0, <1>1, <1>4 DEF Segments
<1>6. IdleChecks
  BY <1>1, SomeChecks
<1> HIDE DEF C
<1> QED
  BY <1>1, <1>2, <1>3, <1>4, <1>5, <1>6, CloseKeeps DEF IdleChecks, money

\* After a restart no entry runs: budget recovery returns what was not dispatched
\* and keeps the rest.
LEMMA RestartKeeps == ASSUME CInv, RestartServer, checks' = {} PROVE CInv'
<1>0. /\ seg \in [Segments -> Segment] /\ call \in Lifecycle /\ call.epoch \in Nat /\ MaxSegments \in Nat
      /\ HoldTypes /\ \A s \in Segments : HoldOf(s)
  BY CallAssumption DEF CInv, Controlled, ControlTypes, Lifecycle, HeldFor
<1>1. /\ seg' = [s \in Segments |-> IF seg[s].stage = "none" THEN seg[s] ELSE Gone(s)[s]]
      /\ slot' = 0 /\ entry' = 0 /\ UNCHANGED <<consent, provider>>
      /\ hold' = [s \in Segments |-> CASE hold[s] = "held" -> "settled" [] hold[s] = "sent" -> "kept" [] OTHER -> hold[s]]
      /\ record' = [s \in Segments |-> Interrupted(record[s])]
      /\ call' = IF \E s \in Segments : record[s] # "none" THEN WaitFor(call, "server-restart") ELSE call
  BY DEF RestartServer
<1>2. Steady(call, call')
  BY <1>0, <1>1, SteadyEvents
<1>3. \A s \in Segments : seg[s].stage # "none" =>
        seg'[s] \in Segment /\ seg'[s].stage = "gone" /\ seg'[s].closing = TRUE /\ seg'[s].auth = seg[s].auth /\ seg'[s].epoch = 0
  <2> SUFFICES ASSUME NEW s \in Segments, seg[s].stage # "none"
               PROVE seg'[s] \in Segment /\ seg'[s].stage = "gone" /\ seg'[s].closing = TRUE /\ seg'[s].auth = seg[s].auth /\ seg'[s].epoch = 0
    OBVIOUS
  <2> DEFINE e == [NoSegment EXCEPT !.stage = "gone", !.closing = TRUE, !.auth = seg[s].auth]
  <2>1. seg'[s] = Gone(s)[s]
    BY <1>1
  <2>2. Gone(s)[s] = e /\ e \in Segment /\ e.stage = "gone" /\ e.closing = TRUE /\ e.auth = seg[s].auth /\ e.epoch = 0
    BY GoneDoes DEF CInv, Controlled
  <2> HIDE DEF e
  <2> QED
    BY <2>1, <2>2
<1>4. \A s \in Segments : seg[s].stage = "none" => seg'[s] = seg[s]
  BY <1>1
<1>5. seg' \in [Segments -> Segment]
  BY <1>0, <1>1, <1>3, <1>4
<1>6. ControlTypes'
  BY <1>0, <1>1, <1>2, <1>5 DEF CInv, Controlled, ControlTypes, Steady
<1>7. \A s \in Segments : ~Runs(s)' /\ ~Live(s)' /\ ~Starting(s)'
  BY <1>3, <1>4 DEF Runs, Live, Starting
<1>8. \A s \in Segments : seg'[s].auth <= consent' /\ seg'[s].epoch <= call'.epoch
  BY <1>0, <1>1, <1>2, <1>3, <1>4 DEF CInv, Controlled, Steady
<1>9. \A s \in Segments : /\ s \in call'.known => seg'[s].stage \in {"live", "gone"}
                          /\ seg'[s].stage = "gone" => seg'[s].closing
  BY <1>2, <1>3, <1>4 DEF CInv, Controlled, Steady
<1>10. Controlled'
  BY <1>6, <1>7, <1>8, <1>9 DEF Controlled
<1>11. \A s \in Segments : /\ hold[s] = "held" => hold'[s] = "settled"
                           /\ hold[s] = "sent" => hold'[s] = "kept"
                           /\ hold[s] \notin {"held", "sent"} => hold'[s] = hold[s]
                           /\ record'[s] = IF record[s] = "saved" THEN "unconfirmed" ELSE record[s]
  BY <1>1 DEF Interrupted
<1>12. HoldTypes'
  <2>1. \A s \in Segments : hold'[s] \in Holds /\ record'[s] \in {"none", "saved", "unconfirmed", "final"}
    BY <1>0, <1>11 DEF HoldTypes, Holds
  <2>2. hold' = [s \in Segments |-> hold'[s]] /\ record' = [s \in Segments |-> record'[s]]
    BY <1>1
  <2> QED
    BY <1>0, <1>1, <2>1, <2>2 DEF HoldTypes
<1>13. \A s \in Segments : HoldOf(s)'
  <2> SUFFICES ASSUME NEW s \in Segments PROVE HoldOf(s)'
    OBVIOUS
  <2>1. HoldOf(s) /\ record[s] \in {"none", "saved", "unconfirmed", "final"} /\ seg[s].stage \in Stages
    BY <1>0 DEF HoldTypes, Segment
  <2>2. CASE seg[s].stage = "none"
    BY <1>1, <1>4, <1>11, <2>1, <2>2 DEF HoldOf
  <2>3. CASE seg[s].stage # "none"
    BY <1>1, <1>3, <1>11, <2>1, <2>3 DEF HoldOf
  <2> QED
    BY <2>2, <2>3
<1>14. Reserved' \in SUBSET Reserved
  BY <1>11 DEF Reserved
<1>15. Cardinality(Reserved') <= Minutes
  <2>1. Cardinality(Reserved') <= Cardinality(Reserved) /\ Cardinality(Reserved) \in Nat /\ Cardinality(Reserved') \in Nat
    BY <1>14, ReservedFinite, FS_Subset, FS_CardinalityType
  <2> QED
    BY <2>1, CallAssumption DEF CInv, HeldFor
<1> QED
  BY <1>10, <1>12, <1>13, <1>15 DEF CInv, HeldFor

\* A step of the tab alone, or one whose command the server did not hear.
LEMMA TabKeeps ==
  ASSUME CInv, UNCHANGED <<call, seg, slot, entry, consent, hold, record, provider>>,
         checks' \subseteq checks \/ checks' = Abandoned
  PROVE  CInv'
<1>1. IdleChecks
  BY SomeChecks, AbandonedChecks
<1>2. Steady(call, call')
  BY SteadyEvents DEF CInv, Controlled, ControlTypes
<1> QED
  BY <1>1, <1>2, SteadyKeeps

\* A recovery, or a start, of the tab.
LEMMA FlightKeeps == ASSUME CInv, FlightStep PROVE CInv'
<1>1. CASE Prepare
  <2>1. IdleChecks
    BY <1>1, SomeChecks DEF Prepare
  <2>2. CASE CloseCommand(flight.of)
    BY <2>1, <2>2, CloseCommandKeeps
  <2>3. CASE ~CloseCommand(flight.of)
    BY <1>1, <2>3, TabKeeps DEF Prepare, Delivered
  <2> QED
    BY <2>2, <2>3
<1>2. CASE Ask
  <2>1. CASE UNCHANGED serverVars
    BY <2>1, TabKeeps DEF serverVars, durable, process
  <2>2. CASE ~UNCHANGED serverVars
    BY <1>2, <2>2, RecoverKeeps DEF Ask
  <2> QED
    BY <2>1, <2>2
<1>3. CASE Superseded \/ Receive \/ AttemptFailed \/ FailedWhenMoved
  BY <1>3, TabKeeps DEF Superseded, Receive, AttemptFailed, FailedWhenMoved, serverVars, durable, process
<1>4. CASE AuthorityLost
  <2>1. IdleChecks
    BY <1>4, AbandonedChecks DEF AuthorityLost
  <2>2. CASE EndCommand
    BY <2>1, <2>2, EndCommandKeeps
  <2>3. CASE ~EndCommand
    BY <1>4, <2>3, TabKeeps DEF AuthorityLost, Delivered
  <2> QED
    BY <2>2, <2>3
<1>5. CASE StartFailed
  <2>1. IdleChecks
    BY <1>5, AbandonedChecks DEF StartFailed
  <2>2. CASE EndCommand \/ CloseCommand(grant)
    BY <2>1, <2>2, EndCommandKeeps, CloseCommandKeeps
  <2>3. CASE ~(EndCommand \/ CloseCommand(grant))
    BY <1>5, <2>3, TabKeeps DEF StartFailed, Delivered, durable
  <2> QED
    BY <2>2, <2>3
<1>6. CASE Exhaust
  <2>1. IdleChecks
    BY <1>6, SomeChecks DEF Exhaust
  <2>2. CASE ExhaustedCommand(grant)
    BY <2>1, <2>2, ExhaustedKeeps
  <2>3. CASE ~ExhaustedCommand(grant)
    BY <1>6, <2>3, TabKeeps DEF Exhaust, Delivered
  <2> QED
    BY <2>2, <2>3
<1> QED
  BY <1>1, <1>2, <1>3, <1>4, <1>5, <1>6 DEF FlightStep

\* What is lost or late, and what the tab does of its own.
LEMMA HoldsKeep ==
  ASSUME CInv,
         \/ AskLost \/ MediaFails \/ GiveUp \/ Drop \/ Retry \/ LeaseLapses \/ GoToSleep \/ WakeUp \/ HearRestart
         \/ Pause \/ Unpause \/ Acknowledge \/ ResumeLost \/ Hangup
  PROVE  CInv'
<1>1. CASE AskLost \/ Drop \/ Retry \/ LeaseLapses \/ GoToSleep \/ WakeUp \/ HearRestart
  BY <1>1, TabKeeps DEF AskLost, Drop, Retry, LeaseLapses, GoToSleep, WakeUp, HearRestart, serverVars, durable, process
<1>2. CASE GiveUp
  BY <1>2, TabKeeps DEF GiveUp, durable
<1>3. CASE MediaFails
  <2>1. IdleChecks
    BY <1>3, SomeChecks DEF MediaFails
  <2>2. CASE CloseCommand(flight.seg)
    BY <2>1, <2>2, CloseCommandKeeps
  <2>3. CASE ~CloseCommand(flight.seg)
    BY <1>3, <2>3, TabKeeps DEF MediaFails
  <2> QED
    BY <2>2, <2>3
<1>4. CASE Pause
  <2>1. CASE UNCHANGED serverVars
    BY <2>1, TabKeeps DEF serverVars, durable, process
  <2>2. CASE ~UNCHANGED serverVars
    BY <1>4, <2>2, PauseKeeps DEF Pause
  <2> QED
    BY <2>1, <2>2
<1>5. CASE Unpause \/ Acknowledge \/ ResumeLost
  BY <1>5, PauseKeeps DEF Unpause, Acknowledge, ResumeLost
<1>6. CASE Hangup
  <2>1. IdleChecks
    BY <1>6, AbandonedChecks DEF Hangup
  <2>2. CASE EndCommand
    BY <2>1, <2>2, EndCommandKeeps
  <2>3. CASE ~EndCommand
    BY <1>6, <2>3, TabKeeps DEF Hangup, Delivered
  <2> QED
    BY <2>2, <2>3
<1> QED
  BY <1>1, <1>2, <1>3, <1>4, <1>5, <1>6

\* What goes wrong outside.
LEMMA UpsetsKeep ==
  ASSUME CInv, ResumeStep \/ PauseRefused \/ TextPause \/ OtherTab \/ NewConsent \/ Crash
  PROVE  CInv'
<1>1. CASE ResumeStep \/ TextPause
  BY <1>1, PauseKeeps DEF ResumeStep, TextPause
<1>2. CASE PauseRefused
  BY <1>2, PauseFailsKeeps DEF PauseRefused
<1>3. CASE OtherTab
  <2>1. IdleChecks
    BY <1>3, AbandonedChecks DEF OtherTab
  <2> QED
    BY <1>3, <2>1, TakeOverKeeps DEF OtherTab
<1>4. CASE NewConsent
  BY <1>4, ConsentKeeps DEF NewConsent
<1>5. CASE Crash
  BY <1>5, RestartKeeps DEF Crash
<1> QED
  BY <1>1, <1>2, <1>3, <1>4, <1>5

\* Before the first call no segment runs.
LEMMA InitCInv == Init => CInv
<1> SUFFICES ASSUME Init PROVE CInv
  OBVIOUS
<1>0. /\ MaxSegments \in Nat /\ Minutes \in Nat /\ Allowance \in Nat /\ 0 \in 0..MaxSegments /\ 0 \in 0..Allowance
  BY CallAssumption, AllowanceAssumption
<1>1. Idle \in Lifecycle /\ Idle.known = {} /\ Idle.epoch = 0
  BY <1>0 DEF Idle, Lifecycle, States
<1>2. NoSegment \in Segment /\ NoSegment.stage = "none" /\ NoSegment.epoch = 0 /\ NoSegment.auth = 0
  BY <1>0 DEF NoSegment, Segment, Stages
<1>3. /\ call = Idle /\ seg = [s \in Segments |-> NoSegment] /\ slot = 0 /\ entry = 0 /\ checks = {} /\ consent = 1
      /\ hold = [s \in Segments |-> "none"] /\ record = [s \in Segments |-> "none"]
      /\ provider = [s \in Segments |-> "none"]
  BY DEF Init, CallsInit
<1>4. ControlTypes
  BY <1>0, <1>1, <1>2, <1>3 DEF ControlTypes
<1>5. \A s \in Segments : ~Runs(s) /\ ~Live(s) /\ ~Starting(s)
  BY <1>2, <1>3 DEF Runs, Live, Starting
<1>6. Controlled
  BY <1>1, <1>2, <1>3, <1>4, <1>5 DEF Controlled
<1>7. HoldTypes /\ \A s \in Segments : HoldOf(s)
  BY <1>2, <1>3 DEF HoldTypes, HoldOf, Holds
<1>8. Reserved = {}
  BY <1>3 DEF Reserved
<1> QED
  BY <1>0, <1>6, <1>7, <1>8, FS_EmptySet DEF CInv, HeldFor

\* Every step keeps the invariant.
LEMMA StepCInv == CInv /\ [Next]_vars => CInv'
<1> SUFFICES ASSUME CInv, [Next]_vars PROVE CInv'
  OBVIOUS
<1>1. ASSUME NEW s \in Segments, FirstCall(s) \/ StartStep(s) PROVE CInv'
  BY <1>1, BeginKeeps, AdmitKeeps, ConsumeKeeps, DispatchKeeps, ConnectKeeps, RefuseKeeps DEF FirstCall, StartStep
<1>2. ASSUME NEW s \in Segments,
             (\E confirmed, fatal \in BOOLEAN : StartRefused(s, confirmed, fatal)) \/ CloseStep(s) \/ Unconfirmed(s) \/ Expire(s)
      PROVE CInv'
  BY <1>2, EndsKeep, AfterwardsKeeps, LeaseKeeps DEF StartRefused, CloseStep, Unconfirmed, Expire
<1>3. ASSUME NEW c \in checks, CheckStep(c) \/ CheckRefused(c) PROVE CInv'
  BY <1>3, CheckStepKeeps DEF CheckStep, CheckRefused
<1>4. CASE UNCHANGED vars
  BY <1>4, TabKeeps DEF vars, serverVars, durable, process
<1> QED
  BY <1>1, <1>2, <1>3, <1>4, FlightKeeps, HoldsKeep, UpsetsKeep DEF Next

\* The invariant holds in every reachable state.
LEMMA CInvAlways == Spec => []CInv
<1> QED
  BY InitCInv, StepCInv, PTL DEF Spec

-----------------------------------------------------------------------------
(* The tab stays on the segment of the call *)

\* Nothing that controls the call runs, and no request that waits for its check
\* could start anything.
Nobody ==
  /\ \A s \in Segments : Runs(s) => ~Authorized(s)
  /\ \A c \in checks : ~Authorized(c.seg)

\* Behind a tab that is on segment g no other segment can become live: the call
\* is over, or g is live and no request waits to replace it, or nobody can.
Sure(g) ==
  \/ call.state = "ended"
  \/ Live(g) /\ \A c \in checks : c.seg = g => c.of # g
  \/ Nobody

TabRecord == [state : States, holds : SUBSET Reasons, epoch : Nat, provider : Nat, known : SUBSET Nat,
              auth : Nat, needsRecovery : BOOLEAN, attempts : Nat]

FlightRecord == [stage : {"none", "preparing", "asking", "waiting", "replied", "failed", "exhausted"},
                 of : 0..MaxSegments, seg : 0..MaxSegments, left : Int,
                 explicit : BOOLEAN, moved : BOOLEAN, fatal : BOOLEAN]

TabTypes ==
  /\ tab \in TabRecord /\ flight \in FlightRecord /\ grant \in 0..MaxSegments
  /\ call.provider \in 0..MaxSegments
  /\ Joined => grant # 0
  /\ flight.stage = "replied" => flight.seg # 0
  /\ Flying /\ Joined => tab.needsRecovery \/ tab.state = "ended"

\* What the tab or the call was connected to has its start behind it.
Behind ==
  \A s \in Segments : s \in {grant, flight.of, call.provider} \/ On(s) => seg[s].stage \in {"live", "gone"}

\* A request to replace the live segment is of the tab's own recovery of it; one
\* request is waited for, and only while the tab waits for nothing else.
Asked ==
  /\ \A c \in checks : c.of = c.seg /\ Live(c.seg) => grant = c.seg /\ (Flying => flight.of = c.seg)
  /\ \A c \in checks : c.waited => flight.stage = "waiting" /\ flight.of = c.of /\ flight.seg = 0
  /\ \A c, d \in checks : c.waited /\ d.waited => c = d

\* A recovery of the live segment is of the one the tab was given.
Replaced == \A s \in Segments : Flying /\ flight.of = s /\ Live(s) => grant = s

Followed == \A s \in Segments : On(s) => Sure(s)

TabInv == TabTypes /\ Behind /\ Asked /\ Replaced /\ Followed

\* No segment comes back, no authorization and no ended call.
Onward ==
  /\ \A s \in Segments : seg[s].stage # "none" =>
       seg'[s].auth = seg[s].auth /\ seg'[s].epoch <= seg[s].epoch /\ (seg[s].closing => seg'[s].closing)
  /\ \A s \in Segments : seg[s].stage \in {"live", "gone"} => seg'[s].stage \in {"live", "gone"}
  /\ call'.epoch >= call.epoch /\ consent' >= consent /\ (call.state = "ended" => call'.state = "ended")
  /\ \/ call'.provider = call.provider
     \/ call'.provider \in Segments /\ seg'[call'.provider].stage = "live"

\* No segment is entered.
Alone == \A s \in Segments : seg[s].stage = "none" => seg'[s].stage = "none"

\* What a segment was in a step that goes onward.
LEMMA OnwardFacts ==
  ASSUME CInv, CInv', Onward, NEW s \in Segments, seg[s].stage # "none"
  PROVE  /\ Runs(s)' => Runs(s)
         /\ Authorized(s)' => Authorized(s)
         /\ seg[s].stage \in {"live", "gone"} /\ Live(s)' => Live(s)
<1>1. /\ seg[s].auth \in Nat /\ seg[s].epoch \in Nat /\ seg'[s].epoch \in Nat /\ call.epoch \in Nat /\ call'.epoch \in Nat
      /\ consent \in Nat /\ consent' \in Nat /\ seg[s].stage \in Stages /\ seg[s].auth <= consent /\ seg[s].epoch <= call.epoch
      /\ seg[s].stage = "gone" => seg[s].closing
  BY DEF CInv, Controlled, ControlTypes, Segment, Lifecycle
<1>2. seg'[s].auth = seg[s].auth /\ seg'[s].epoch <= seg[s].epoch /\ (seg[s].closing => seg'[s].closing)
      /\ call'.epoch >= call.epoch /\ consent' >= consent
  BY DEF Onward
<1>3. Runs(s)' => Runs(s)
  BY <1>1, <1>2 DEF Runs, Starting, Stages
<1>4. Authorized(s)' => Authorized(s)
  BY <1>1, <1>2 DEF Authorized, Controls
<1>5. seg[s].stage \in {"live", "gone"} /\ Live(s)' => Live(s)
  BY <1>1, <1>2 DEF Live
<1> QED
  BY <1>3, <1>4, <1>5

\* The checks that are left were there before, some of them no longer waited for.
OldChecks ==
  \A d \in checks' : \E c \in checks : d.seg = c.seg /\ d.of = c.of /\ (d.waited => d = c)

\* What no request waits to replace is left live, unless the call ends or nobody is left.
Spares(g) ==
  Live(g) /\ (\A c \in checks : c.seg = g => c.of # g) => Live(g)' \/ call'.state = "ended" \/ Nobody'

\* A tab that was sure stays so unless its own segment is closed.
LEMMA SureKept ==
  ASSUME CInv, CInv', Onward, Alone, OldChecks, NEW g \in Segments, Sure(g), Spares(g)
  PROVE  Sure(g)'
<1>1. CASE call.state = "ended"
  BY <1>1 DEF Onward, Sure
<1>2. CASE Live(g) /\ \A c \in checks : c.seg = g => c.of # g
  BY <1>2 DEF OldChecks, Sure, Spares
<1>3. CASE Nobody
  <2>1. \A s \in Segments : Runs(s)' => ~Authorized(s)'
    <3> SUFFICES ASSUME NEW s \in Segments, Runs(s)', Authorized(s)' PROVE FALSE
      OBVIOUS
    <3>1. seg[s].stage # "none"
      BY DEF Alone, Runs, Starting
    <3>2. Runs(s) /\ Authorized(s)
      BY <3>1, OnwardFacts
    <3> QED
      BY <1>3, <3>2 DEF Nobody
  <2>2. \A d \in checks' : ~Authorized(d.seg)'
    <3> SUFFICES ASSUME NEW d \in checks', NEW c \in checks, d.seg = c.seg, Authorized(d.seg)' PROVE FALSE
      BY DEF OldChecks
    <3>1. c.seg \in Segments /\ seg[c.seg].stage # "none"
      BY DEF CInv, Controlled, ControlTypes
    <3> DEFINE s == c.seg
    <3>2. s \in Segments /\ seg[s].stage # "none" /\ ~Authorized(s)
      BY <1>3, <3>1 DEF Nobody
    <3>3. Authorized(s)'
      OBVIOUS
    <3> HIDE DEF s
    <3> QED
      BY <3>2, <3>3, OnwardFacts
  <2> QED
    BY <2>1, <2>2 DEF Sure, Nobody
<1> QED
  BY <1>1, <1>2, <1>3 DEF Sure

\* An event of the tab that gives it no connection it did not have.
Calm(t, u) ==
  /\ u \in TabRecord /\ u.provider = t.provider
  /\ t.needsRecovery => u.needsRecovery \/ u.state = "ended"
  /\ t.state = "ended" => u.state = "ended"

\* The events of an outage, of holds and of the end connect nothing.
LEMMA CalmEvents ==
  ASSUME NEW t \in TabRecord
  PROVE  /\ Calm(t, t) /\ Calm(t, EndCall(t)) /\ Calm(t, Sleep(t)) /\ Calm(t, HoldFor(t, "pause"))
         /\ Calm(t, ResumeAcknowledged(t)) /\ Calm(t, RecoveryAttempt(t)) /\ Calm(t, RetryRequested(t))
         /\ Calm(t, TransportLost(t)) /\ (TransportLost(t).needsRecovery \/ t.state = "ended")
         /\ \A r \in Reasons : Calm(t, WaitFor(t, r))
         /\ Calm(t, RecoveryFailed(t)) /\ Calm(t, RecoveryExhausted(t))
<1>0. /\ Allowance \in Nat /\ t.attempts + 1 \in Nat /\ 0 \in Nat
      /\ {"pause", "waiting", "sleep", "ended"} \subseteq Reasons
  BY AllowanceAssumption DEF Reasons, TabRecord
<1>1. Calm(t, t) /\ Calm(t, EndCall(t))
  BY <1>0 DEF Calm, EndCall, Unless, TabRecord, States
<1>2. Calm(t, Sleep(t)) /\ Calm(t, HoldFor(t, "pause"))
  BY <1>0 DEF Calm, Sleep, HoldFor, Unless, TabRecord, States
<1>3. Calm(t, ResumeAcknowledged(t)) /\ Calm(t, RecoveryAttempt(t)) /\ Calm(t, RetryRequested(t))
  <2>1. Calm(t, ResumeAcknowledged(t))
    BY <1>0 DEF Calm, ResumeAcknowledged, Unless, TabRecord, States
  <2>2. Calm(t, RecoveryAttempt(t))
    <3> DEFINE n == t.attempts + 1
    <3>1. n \in Nat
      BY <1>0
    <3> HIDE DEF n
    <3>2. Calm(t, [t EXCEPT !.attempts = n])
      BY <3>1 DEF Calm, TabRecord
    <3> QED
      BY <1>1, <3>2 DEF RecoveryAttempt, Unless, n
  <2>3. Calm(t, RetryRequested(t))
    BY <1>0 DEF Calm, RetryRequested, Unless, TabRecord
  <2> QED
    BY <2>1, <2>2, <2>3
<1>4. Calm(t, TransportLost(t)) /\ (TransportLost(t).needsRecovery \/ t.state = "ended")
  BY DEF Calm, TransportLost, Unless, TabRecord, States
<1>5. \A r \in Reasons : Calm(t, WaitFor(t, r))
  BY DEF Calm, WaitFor, Unless, TabRecord, States
<1>6. Calm(t, RecoveryFailed(t))
  BY <1>0, <1>1, <1>5 DEF RecoveryFailed
<1>7. Calm(t, RecoveryExhausted(t))
  <2> DEFINE d == WaitFor(t, "waiting")
  <2>1. Calm(t, d)
    BY <1>0, <1>5
  <2> HIDE DEF d
  <2>2. Calm(t, [d EXCEPT !.attempts = Allowance])
    BY <1>0, <2>1 DEF Calm, TabRecord
  <2> QED
    BY <1>1, <2>2 DEF RecoveryExhausted, Unless, d
<1> QED
  BY <1>1, <1>2, <1>3, <1>4, <1>5, <1>6, <1>7

\* Steps of a tab that is given no other segment; a recovery it takes off with is of its own.
LEMMA GoesOn ==
  ASSUME CInv, CInv', TabInv, Onward, OldChecks, Calm(tab, tab'), grant' = grant,
         flight' \in FlightRecord, flight'.of \in {0, flight.of, grant},
         flight'.stage # "none" => \/ Flying /\ flight'.of = flight.of
                                   \/ ~Flying /\ flight'.of = grant /\ (Joined => tab'.needsRecovery \/ tab'.state = "ended"),
         \A d \in checks' : d.waited => flight'.stage = "waiting" /\ flight'.seg = 0,
         \A g \in Segments : HasMedia /\ HasMedia' /\ grant = g => Sure(g)',
         flight'.stage = "replied" => flight'.seg # 0,
         \A g \in Segments : flight'.stage = "replied" /\ flight'.seg = g =>
           seg'[g].stage \in {"live", "gone"} /\ Sure(g)'
  PROVE  TabInv'
<1>0. /\ MaxSegments \in Nat /\ \A s \in Segments : s # 0
      /\ \A s \in Segments : seg[s].stage \in {"live", "gone"} => seg[s].stage # "none"
  BY CallAssumption DEF Segments
<1>1. call'.provider \in 0..MaxSegments
  BY <1>0 DEF Onward, TabInv, TabTypes, Segments
<1>2. TabTypes'
  BY <1>1 DEF TabInv, TabTypes, Calm, Joined, Flying
<1>3. HasMedia' => HasMedia
  BY DEF TabInv, TabTypes, Calm, HasMedia, Joined, Flying
<1>4. Behind'
  <2> SUFFICES ASSUME NEW s \in Segments, s \in {grant', flight'.of, call'.provider} \/ On(s)'
               PROVE seg'[s].stage \in {"live", "gone"}
    BY DEF Behind
  <2>1. CASE flight'.stage = "replied" /\ flight'.seg = s
    BY <2>1
  <2>2. CASE s = call'.provider /\ call'.provider # call.provider
    BY <2>2 DEF Onward
  <2>3. CASE s \in {grant, flight.of, call.provider}
    BY <2>3 DEF TabInv, Behind, Onward
  <2> QED
    BY <1>0, <2>1, <2>2, <2>3 DEF On
<1>5. \A s \in Segments : seg[s].stage \in {"live", "gone"} /\ Live(s)' => Live(s)
  BY <1>0, OnwardFacts
<1>6. Asked'
  <2>1. ASSUME NEW d \in checks', d.of = d.seg, Live(d.seg)' PROVE grant' = d.seg /\ (Flying' => flight'.of = d.seg)
    <3>1. PICK c \in checks : d.seg = c.seg /\ d.of = c.of
      BY DEF OldChecks
    <3> DEFINE s == c.seg
    <3>2. s \in Segments /\ seg[s].stage \in {"live", "gone"}
      BY DEF CInv, Controlled, ControlTypes
    <3>3. Live(s)'
      BY <2>1, <3>1
    <3> HIDE DEF s
    <3>4. Live(s)
      BY <1>5, <3>2, <3>3
    <3>5. grant = s /\ (Flying => flight.of = s)
      BY <2>1, <3>1, <3>4 DEF TabInv, Asked, s
    <3> QED
      BY <3>1, <3>5 DEF Flying, s
  <2>2. \A d \in checks' : d.waited => flight'.stage = "waiting" /\ flight'.of = d.of /\ flight'.seg = 0
    <3> SUFFICES ASSUME NEW d \in checks', d.waited PROVE flight'.of = d.of
      OBVIOUS
    <3>1. d \in checks /\ flight'.stage = "waiting"
      BY DEF OldChecks
    <3>2. Flying /\ flight.of = d.of
      BY <3>1 DEF TabInv, Asked, Flying
    <3>3. flight'.of = flight.of
      BY <3>1, <3>2
    <3> QED
      BY <3>2, <3>3
  <2>3. \A c, d \in checks' : c.waited /\ d.waited => c = d
    BY DEF OldChecks, TabInv, Asked
  <2> QED
    BY <2>1, <2>2, <2>3 DEF Asked
<1>7. Replaced'
  <2> SUFFICES ASSUME NEW s \in Segments, Flying', flight'.of = s, Live(s)' PROVE grant' = s
    BY DEF Replaced
  <2>1. CASE flight'.of = grant
    BY <2>1
  <2>2. CASE Flying /\ flight.of = s
    <3>1. Live(s)
      BY <1>5, <2>2 DEF TabInv, Behind
    <3> QED
      BY <2>2, <3>1 DEF TabInv, Replaced
  <2> QED
    BY <2>1, <2>2 DEF Flying
<1>8. Followed'
  BY <1>3 DEF Followed, On
<1> QED
  BY <1>2, <1>4, <1>6, <1>7, <1>8 DEF TabInv

\* A step of the server alone, or one that only marks the flight.
LEMMA StaysOn ==
  ASSUME CInv, CInv', TabInv, Onward, checks' \subseteq checks, Calm(tab, tab'), grant' = grant,
         flight' \in FlightRecord, flight'.stage = flight.stage, flight'.of = flight.of, flight'.seg = flight.seg,
         \A g \in Segments : On(g) /\ Sure(g) => Sure(g)'
  PROVE  TabInv'
<1>1. OldChecks
  BY DEF OldChecks
<1>2. \A g \in Segments : On(g) => Sure(g)
  BY DEF TabInv, Followed
<1>3. \A g \in Segments : flight.stage = "replied" /\ flight.seg = g =>
         seg'[g].stage \in {"live", "gone"} /\ Sure(g)'
  BY <1>2 DEF TabInv, Behind, On, Onward
<1>4. \A g \in Segments : HasMedia /\ grant = g => Sure(g)'
  BY <1>2 DEF On
<1>5. \A d \in checks' : d.waited => flight'.stage = "waiting" /\ flight'.seg = 0
  BY DEF TabInv, Asked
<1>6. flight'.stage = "replied" => flight'.seg # 0
  BY DEF TabInv, TabTypes
<1> QED
  BY <1>1, <1>3, <1>4, <1>5, <1>6, GoesOn DEF Flying

-----------------------------------------------------------------------------
(* What the server's steps leave of the segments *)

\* A step that takes the call from no segment unless it ends it.
Gentle == Onward /\ Alone /\ \A g \in Segments : Spares(g)

\* The segments are left alone.
LEMMA UntouchedIsGentle ==
  ASSUME CInv, Steady(call, call'), UNCHANGED <<seg, consent>>
  PROVE  Gentle
<1>1. /\ seg \in [Segments -> Segment] /\ call.epoch \in Nat /\ consent \in Nat
      /\ \A s \in Segments : seg[s].epoch \in Nat
  BY DEF CInv, Controlled, ControlTypes, Segment, Lifecycle
<1>2. Onward /\ Alone
  BY <1>1 DEF Onward, Alone, Steady
<1>3. \A g \in Segments : Spares(g)
  BY DEF Spares, Live
<1> QED
  BY <1>2, <1>3 DEF Gentle

\* Only the segments of C are closed.
LEMMA ClosesOnward ==
  ASSUME CInv, NEW C \in SUBSET Segments, ClosesOnly(C), call'.provider = call.provider,
         call'.epoch >= call.epoch, consent' >= consent, call.state = "ended" => call'.state = "ended"
  PROVE  Onward /\ Alone /\ \A g \in Segments \ C : Live(g) => Live(g)'
<1>1. \A s \in Segments : seg[s].epoch \in Nat /\ seg[s].closing \in BOOLEAN
  BY DEF CInv, Controlled, ControlTypes, Segment
<1>2. Onward /\ Alone
  BY <1>1 DEF Onward, Alone, ClosesOnly
<1>3. \A g \in Segments \ C : Live(g) => Live(g)'
  BY <1>1 DEF ClosesOnly, Live
<1> QED
  BY <1>2, <1>3

\* One segment that is not live goes on.
LEMMA OneIsGentle ==
  ASSUME CInv, NEW s \in Segments, ~Live(s), \A u \in Segments : u # s => seg'[u] = seg[u],
         seg[s].stage # "none", seg[s].stage \in {"live", "gone"} => seg'[s].stage \in {"live", "gone"},
         seg'[s].auth = seg[s].auth, seg'[s].epoch <= seg[s].epoch, seg[s].closing => seg'[s].closing,
         consent' = consent, call'.epoch = call.epoch, call.state = "ended" => call'.state = "ended",
         call'.provider = call.provider \/ (call'.provider = s /\ seg'[s].stage = "live")
  PROVE  Gentle
<1>1. call.epoch \in Nat /\ consent \in Nat /\ \A u \in Segments : seg[u].epoch \in Nat
  BY DEF CInv, Controlled, ControlTypes, Segment, Lifecycle
<1>2. Onward /\ Alone
  BY <1>1 DEF Onward, Alone
<1>3. \A g \in Segments : Spares(g)
  BY DEF Spares, Live
<1> QED
  BY <1>2, <1>3 DEF Gentle

\* The steps of a start.
LEMMA StartIsGentle ==
  ASSUME CInv, NEW s \in Segments, Admit(s) \/ Consume(s) \/ Dispatch(s) \/ Connect(s) \/ Refuse(s)
  PROVE  Gentle /\ checks' = checks
<1>0. seg \in [Segments -> Segment] /\ seg[s] \in Segment /\ seg[s].epoch \in Nat /\ call \in Lifecycle
  BY DEF CInv, Controlled, ControlTypes, Segment
<1>1. ASSUME NEW to \in {"opening", "consumed", "dispatched", "live"}, Starting(s), seg' = [seg EXCEPT ![s].stage = to],
             consent' = consent, call'.epoch = call.epoch, call.state = "ended" => call'.state = "ended",
             call'.provider = call.provider \/ (call'.provider = s /\ to = "live")
      PROVE  Gentle
  <2>1. to \in Stages
    BY DEF Stages
  <2>2. /\ seg'[s].stage = to /\ seg'[s].epoch = seg[s].epoch /\ seg'[s].auth = seg[s].auth
        /\ seg'[s].closing = seg[s].closing
        /\ \A u \in Segments : u # s => seg'[u] = seg[u]
    BY <1>1, <2>1, MoveDoes DEF CInv, Controlled
  <2> QED
    BY <1>0, <1>1, <2>2, OneIsGentle DEF Starting, Live
<1>2. CASE Admit(s) \/ Consume(s) \/ Dispatch(s)
  BY <1>1, <1>2 DEF Admit, Consume, Dispatch, Move, Starting
<1>3. CASE Connect(s)
  <2>1. /\ Starting(s) /\ seg' = [seg EXCEPT ![s].stage = "live"] /\ consent' = consent /\ checks' = checks
        /\ seg[s].epoch = call.epoch /\ call.state # "ended"
        /\ call' = PauseIf(Connected(call, call.epoch, s, consent))
    BY <1>3 DEF Connect, Move, Authorized, Controls, Starting
  <2>2. s \notin call.known /\ consent \in Nat /\ s \in Nat
    BY <2>1 DEF CInv, Controlled, ControlTypes, Segments, Starting
  <2>3. call'.provider = s /\ call'.epoch = call.epoch
    BY <1>0, <2>1, <2>2, ConnectedDoes
  <2> QED
    BY <1>1, <2>1, <2>3
<1>4. CASE Refuse(s)
  <2> DEFINE e == [seg[s] EXCEPT !.stage = "live", !.closing = TRUE]
  <2>1. /\ seg[s].stage = "dispatched" /\ seg' = [seg EXCEPT ![s] = e]
        /\ call' = IF seg[s].closing THEN call ELSE EndCall(call)
        /\ UNCHANGED <<consent, checks>>
    BY <1>0, <1>4 DEF Refuse
  <2>2. e.stage = "live" /\ e.closing = TRUE /\ e.auth = seg[s].auth /\ e.epoch = seg[s].epoch
    BY <1>0 DEF Segment
  <2> HIDE DEF e
  <2>3. seg'[s] = e /\ \A u \in Segments : u # s => seg'[u] = seg[u]
    BY <1>0, <2>1
  <2>4. call'.provider = call.provider /\ call'.epoch = call.epoch /\ (call.state = "ended" => call'.state = "ended")
    BY <1>0, <2>1, EndCallDoes
  <2> QED
    BY <1>0, <2>1, <2>2, <2>3, <2>4, OneIsGentle DEF Live
<1> QED
  BY <1>2, <1>3, <1>4 DEF Admit, Consume, Dispatch

\* A start that fails, a close that is answered, and what follows.
LEMMA EndIsGentle ==
  ASSUME CInv, NEW s \in Segments,
         \/ \E confirmed \in BOOLEAN : StartFails(s, confirmed) \/ CloseSettles(s, confirmed)
         \/ ProviderEnds(s) \/ Reconcile(s)
  PROVE  Gentle /\ checks' = checks
<1>1. CASE ProviderEnds(s) \/ Reconcile(s)
  BY <1>1, UntouchedIsGentle, SteadyEvents DEF ProviderEnds, Reconcile, process, CInv, Controlled, ControlTypes
<1>2. CASE \E confirmed \in BOOLEAN : StartFails(s, confirmed) \/ CloseSettles(s, confirmed)
  <2> DEFINE e == [NoSegment EXCEPT !.stage = "gone", !.closing = TRUE, !.auth = seg[s].auth]
  <2>1. seg' = Gone(s) /\ UNCHANGED <<call, consent, checks>> /\ seg[s].stage # "none" /\ ~Live(s)
    BY <1>2 DEF StartFails, CloseSettles, Starting, Live
  <2>2. /\ seg' = [seg EXCEPT ![s] = e] /\ seg' \in [Segments -> Segment] /\ seg'[s] = e
        /\ e.stage = "gone" /\ e.closing = TRUE /\ e.auth = seg[s].auth /\ e.epoch = 0
    BY <2>1, GoneDoes DEF CInv, Controlled
  <2> HIDE DEF e
  <2>3. seg \in [Segments -> Segment] /\ seg[s].epoch \in Nat
    BY DEF CInv, Controlled, ControlTypes, Segment
  <2>4. \A u \in Segments : u # s => seg'[u] = seg[u]
    BY <2>2, <2>3
  <2> QED
    BY <2>1, <2>2, <2>3, <2>4, OneIsGentle
<1> QED
  BY <1>1, <1>2

\* Closing an entry spares every other segment, and ends the call or leaves its epoch.
LEMMA CloseEntrySpares ==
  ASSUME CInv, NEW s \in Segments, NEW after, CloseEntry(s, after), consent' = consent,
         Steady(call, after) \/ after = EndCall(call)
  PROVE  /\ Onward /\ Alone
         /\ \A g \in Segments : g # s /\ Live(g) => Live(g)'
         /\ after = EndCall(call) /\ Live(s) => call'.state = "ended"
<1>0. call \in Lifecycle /\ call.epoch \in Nat /\ consent \in Nat
  BY DEF CInv, Controlled, ControlTypes, Lifecycle
<1>1. ClosesOnly({s})
  BY ClosedDoes DEF CloseEntry, CInv, Controlled
<1>2. /\ call'.provider = call.provider /\ call'.epoch = call.epoch
      /\ call.state = "ended" => call'.state = "ended"
  BY <1>0, SteadyEvents, EndCallDoes DEF CloseEntry, Steady
<1>3. after = EndCall(call) /\ Live(s) => call'.state = "ended"
  BY <1>0, EndCallDoes DEF CloseEntry, Live
<1> DEFINE C == {s}
<1>4. ClosesOnly(C) /\ C \in SUBSET Segments /\ call'.epoch >= call.epoch /\ consent' >= consent
  BY <1>0, <1>1, <1>2
<1>5. \A g \in Segments : g # s => g \in Segments \ C
  OBVIOUS
<1> HIDE DEF C
<1>6. Onward /\ Alone /\ \A g \in Segments \ C : Live(g) => Live(g)'
  BY <1>2, <1>4, ClosesOnward
<1> QED
  BY <1>3, <1>5, <1>6

\* A lease that lapses closes its own segment.
LEMMA LeaseSpares ==
  ASSUME CInv, NEW s \in Segments, LeaseExpires(s)
  PROVE  Onward /\ Alone /\ checks' = checks /\ \A g \in Segments : g # s /\ Live(g) => Live(g)'
<1>1. Steady(call, call) /\ Steady(call, WaitFor(call, "waiting"))
  BY SteadyEvents DEF CInv, Controlled, ControlTypes
<1> QED
  BY <1>1, CloseEntrySpares DEF LeaseExpires

\* Pausing and resuming close nothing, or end the call.
LEMMA PauseIsGentle ==
  ASSUME CInv, \/ \E fenced : ResumeAsk(fenced)
               \/ ResumeSaves \/ ResumeAcks \/ ResumeFails \/ PauseFails
               \/ \E ofCall : PauseCall(ofCall)
  PROVE  Gentle /\ checks' = checks
<1>1. CASE PauseFails
  <2>1. entry \in Segments /\ Live(entry) /\ CloseEntry(entry, EndCall(call)) /\ UNCHANGED <<consent, checks>>
    BY <1>1, CallAssumption DEF PauseFails, CInv, Controlled, ControlTypes, Segments
  <2>2. Onward /\ Alone /\ call'.state = "ended"
    BY <2>1, CloseEntrySpares
  <2> QED
    BY <2>1, <2>2 DEF Gentle, Spares
<1>2. CASE ~PauseFails
  <2>1. Steady(call, call) /\ Steady(call, ResumeAcknowledged(call)) /\ Steady(call, HoldFor(call, "pause"))
    BY SteadyEvents DEF CInv, Controlled, ControlTypes
  <2>2. Steady(call, call') /\ UNCHANGED <<seg, consent, checks>>
    BY <1>2, <2>1 DEF ResumeAsk, ResumeSaves, ResumeAcks, ResumeFails, PauseCall, durable, process
  <2> QED
    BY <2>2, UntouchedIsGentle
<1> QED
  BY <1>1, <1>2

\* A change of consent ends the call of what it closes.
LEMMA ConsentIsGentle == ASSUME CInv, ChangeConsent \/ ChangeSettings PROVE Gentle /\ checks' = checks
<1> DEFINE C == {slot} \cap Segments
<1>0. /\ call \in Lifecycle /\ call.epoch \in Nat /\ consent \in Nat /\ slot \in 0..MaxSegments /\ MaxSegments \in Nat
      /\ \A s \in Segments : s # 0
  BY CallAssumption DEF CInv, Controlled, ControlTypes, Lifecycle, Segments
<1>1. /\ consent' = consent + 1 /\ seg' = IF slot # 0 THEN Closed(slot) ELSE seg
      /\ call' \in {call, EndCall(call)} /\ checks' = checks
      /\ slot # 0 /\ ~seg[slot].closing => call' = EndCall(call)
  BY DEF ChangeConsent, ChangeSettings, process
<1>2. ClosesOnly(C)
  <2>1. CASE slot = 0
    <3>1. C = {}
      BY <1>0, <2>1 DEF Segments
    <3> QED
      BY <1>1, <2>1, <3>1, ClosesNone DEF CInv, Controlled
  <2>2. CASE slot # 0
    <3>1. slot \in Segments /\ C = {slot}
      BY <1>0, <2>2 DEF Segments
    <3> QED
      BY <1>1, <2>2, <3>1, ClosedDoes DEF CInv, Controlled
  <2> QED
    BY <2>1, <2>2
<1>3. /\ EndCall(call).state = "ended" /\ C \in SUBSET Segments
      /\ call'.provider = call.provider /\ call'.epoch >= call.epoch /\ consent' >= consent
      /\ call.state = "ended" => call'.state = "ended"
  BY <1>0, <1>1, EndCallDoes
<1>4. ASSUME NEW g \in Segments, Live(g) PROVE call'.state = "ended"
  <2>1. slot = g
    BY <1>4 DEF CInv, Controlled, Live, Runs
  <2> QED
    BY <1>0, <1>1, <1>3, <1>4, <2>1 DEF Live
<1> HIDE DEF C
<1>5. Onward /\ Alone
  BY <1>2, <1>3, ClosesOnward
<1> QED
  BY <1>1, <1>4, <1>5 DEF Gentle, Spares

\* After a restart nothing runs and nobody waits.
LEMMA RestartIsGentle == ASSUME CInv, RestartServer, checks' = {} PROVE Gentle
<1>0. /\ seg \in [Segments -> Segment] /\ call \in Lifecycle /\ call.epoch \in Nat /\ consent \in Nat
      /\ \A s \in Segments : seg[s].epoch \in Nat
  BY DEF CInv, Controlled, ControlTypes, Lifecycle, Segment
<1>1. /\ seg' = [s \in Segments |-> IF seg[s].stage = "none" THEN seg[s] ELSE Gone(s)[s]]
      /\ consent' = consent
      /\ call' = IF \E s \in Segments : record[s] # "none" THEN WaitFor(call, "server-restart") ELSE call
  BY DEF RestartServer
<1>2. Steady(call, call')
  BY <1>0, <1>1, SteadyEvents
<1>3. \A s \in Segments : seg[s].stage # "none" =>
        seg'[s].stage = "gone" /\ seg'[s].closing = TRUE /\ seg'[s].auth = seg[s].auth /\ seg'[s].epoch = 0
  <2> SUFFICES ASSUME NEW s \in Segments, seg[s].stage # "none"
               PROVE seg'[s].stage = "gone" /\ seg'[s].closing = TRUE /\ seg'[s].auth = seg[s].auth /\ seg'[s].epoch = 0
    OBVIOUS
  <2> DEFINE e == [NoSegment EXCEPT !.stage = "gone", !.closing = TRUE, !.auth = seg[s].auth]
  <2>1. seg'[s] = Gone(s)[s]
    BY <1>1
  <2>2. Gone(s)[s] = e /\ e.stage = "gone" /\ e.closing = TRUE /\ e.auth = seg[s].auth /\ e.epoch = 0
    BY GoneDoes DEF CInv, Controlled
  <2> HIDE DEF e
  <2> QED
    BY <2>1, <2>2
<1>4. \A s \in Segments : seg[s].stage = "none" => seg'[s] = seg[s]
  BY <1>1
<1>5. Onward /\ Alone
  BY <1>0, <1>1, <1>2, <1>3, <1>4 DEF Onward, Alone, Steady
<1>6. Nobody'
  BY <1>3, <1>4 DEF Nobody, Runs, Starting
<1> QED
  BY <1>5, <1>6 DEF Gentle, Spares

\* A check that answers, conflicts or fails closes at most the segment it is about.
LEMMA CheckIsGentle ==
  ASSUME CInv, NEW c \in checks, CheckAnswers(c) \/ CheckConflicts(c) \/ CheckFails(c)
  PROVE  Gentle /\ checks' = checks \ {c}
<1>0. /\ call \in Lifecycle /\ Steady(call, call) /\ Steady(call, Resumable(call)) /\ c.seg \in Segments
      /\ \A s \in Segments : seg[s].stage = "gone" => seg[s].closing
      /\ seg[c.seg].stage \in {"live", "gone"}
  BY SteadyEvents, ResumableSteady DEF CInv, Controlled, ControlTypes
<1>1. checks' = checks \ {c}
  BY DEF CheckAnswers, CheckConflicts, CheckFails
<1>2. CASE UNCHANGED <<call, seg, consent>>
  BY <1>0, <1>1, <1>2, UntouchedIsGentle
<1>3. CASE CheckConflicts(c)
  <2>1. CloseEntry(c.seg, Resumable(call)) /\ consent' = consent /\ ~Answered(c)
    BY <1>3 DEF CheckConflicts
  <2>2. Onward /\ Alone /\ \A g \in Segments : g # c.seg /\ Live(g) => Live(g)'
    BY <1>0, <2>1, CloseEntrySpares
  <2>3. Live(c.seg) => c.of = c.seg
    BY <2>1 DEF Answered, Live
  <2> QED
    BY <1>1, <2>2, <2>3 DEF Gentle, Spares
<1>4. CASE CloseEntry(c.seg, EndCall(call)) /\ consent' = consent
  <2>1. Onward /\ Alone /\ (\A g \in Segments : g # c.seg /\ Live(g) => Live(g)')
        /\ (Live(c.seg) => call'.state = "ended")
    BY <1>0, <1>4, CloseEntrySpares
  <2> QED
    BY <1>1, <2>1 DEF Gentle, Spares
<1> QED
  BY <1>2, <1>3, <1>4 DEF CheckAnswers, CheckFails, durable

\* A segment that enters takes nothing back.
LEMMA EnterOnward ==
  ASSUME CInv, NEW s \in Segments, NEW entries, NEW r, Enter(entries, s, r), entries \in [Segments -> Segment],
         \A u \in Segments : /\ entries[u].stage = seg[u].stage /\ entries[u].epoch = seg[u].epoch /\ entries[u].auth = seg[u].auth
                             /\ seg[u].closing => entries[u].closing,
         Steady(call, call'), consent' = consent
  PROVE  Onward
<1>1. /\ call.epoch \in Nat /\ consent \in Nat
      /\ \A u \in Segments : seg[u].epoch \in Nat
  BY DEF CInv, Controlled, ControlTypes, Lifecycle, Segment
<1>2. seg[s].stage = "none" /\ \A u \in Segments : u # s => seg'[u] = entries[u]
  BY DEF Enter, Unused
<1> QED
  BY <1>1, <1>2 DEF Onward, Steady

\* A check that replaces the segment it is about does so only to a tab that waits
\* for the answer: one that is sure of a segment keeps it.
LEMMA ReplaceOnward ==
  ASSUME CInv, CInv', NEW c \in checks, NEW s \in Segments, CheckReplaces(c, s)
  PROVE  /\ Onward /\ checks' = checks \ {c}
         /\ \A g \in Segments : Sure(g) => Sure(g)'
<1> DEFINE entries == Closed(c.seg)
<1>0. call \in Lifecycle /\ Steady(call, call) /\ Steady(call, Resumable(call)) /\ c.seg \in Segments /\ slot \in 0..MaxSegments
  BY SteadyEvents, ResumableSteady DEF CInv, Controlled, ControlTypes
<1>1. /\ Steady(call, call') /\ Enter(entries, s, c.seg) /\ consent' = consent /\ checks' = checks \ {c}
      /\ Authorized(c.seg) /\ ~Answered(c) /\ NotOwn(slot, c.seg) = 0
  BY <1>0 DEF CheckReplaces
<1>2. seg \in [Segments -> Segment] /\ seg[c.seg] \in Segment
  BY <1>0 DEF CInv, Controlled, ControlTypes
<1> DEFINE e == [seg[c.seg] EXCEPT !.closing = TRUE]
<1>3. e \in Segment /\ e.closing = TRUE /\ e.stage = seg[c.seg].stage /\ e.epoch = seg[c.seg].epoch /\ e.auth = seg[c.seg].auth
  BY <1>2 DEF Segment
<1>4. entries = [seg EXCEPT ![c.seg] = e]
  BY <1>2 DEF Closed
<1> HIDE DEF e
<1>5. /\ entries \in [Segments -> Segment]
      /\ \A u \in Segments : /\ entries[u].stage = seg[u].stage /\ entries[u].epoch = seg[u].epoch /\ entries[u].auth = seg[u].auth
                             /\ seg[u].closing => entries[u].closing
  BY <1>0, <1>2, <1>3, <1>4
<1> HIDE DEF entries
<1>6. Onward
  BY <1>1, <1>5, EnterOnward
<1>7. ASSUME NEW g \in Segments, Sure(g) PROVE call.state = "ended"
  <2>1. ~Nobody
    BY <1>1 DEF Nobody
  <2>2. CASE Live(g) /\ \A d \in checks : d.seg = g => d.of # g
    <3>1. slot = g /\ g # 0
      BY <2>2, CallAssumption DEF CInv, Controlled, Live, Runs, Segments
    <3>2. c.seg = g
      BY <1>1, <3>1 DEF NotOwn
    <3> QED
      BY <1>1, <2>2, <3>2 DEF Answered, Live
  <2> QED
    BY <1>7, <2>1, <2>2 DEF Sure
<1> QED
  BY <1>1, <1>6, <1>7 DEF Onward, Sure

\* A start, afresh or the first, goes onward.
LEMMA BeginOnward ==
  ASSUME CInv, NEW s \in Segments, Enter(seg, s, 0), Steady(call, call'), consent' = consent
  PROVE  Onward
<1>1. seg \in [Segments -> Segment]
  BY DEF CInv, Controlled, ControlTypes
<1> QED
  BY <1>1, EnterOnward

\* The commands of the tab go onward; the end of the call is for good.
LEMMA CommandOnward ==
  ASSUME CInv, NEW of, CloseCommand(of) \/ ExhaustedCommand(of) \/ EndCommand
  PROVE  Onward /\ Alone /\ (EndCommand => call'.state = "ended")
<1>0. call \in Lifecycle /\ call.epoch \in Nat /\ consent \in Nat /\ Steady(call, call) /\ Steady(call, Resumable(call))
  BY SteadyEvents, ResumableSteady DEF CInv, Controlled, ControlTypes, Lifecycle
<1>1. ASSUME CloseCommand(of) PROVE Onward /\ Alone
  <2>1. CASE EntryNow # 0 /\ EntryNow = of /\ seg[of].stage = "live"
    <3>1. of \in Segments /\ CloseEntry(of, Resumable(call)) /\ consent' = consent
      BY <1>1, <2>1, EntryIs DEF CloseCommand
    <3> QED
      BY <1>0, <3>1, CloseEntrySpares
  <2>2. CASE UNCHANGED <<call, seg, consent>>
    BY <1>0, <2>2, UntouchedIsGentle DEF Gentle
  <2> QED
    BY <1>1, <2>1, <2>2 DEF CloseCommand
<1>2. ASSUME ExhaustedCommand(of) PROVE Onward /\ Alone
  <2> DEFINE c == IF call.provider = of THEN RecoveryExhausted(call) ELSE call
  <2>1. Steady(call, c)
    BY <1>0, ExhaustedSteady
  <2>2. c \in Lifecycle
    BY <2>1 DEF Steady
  <2> HIDE DEF c
  <2>3. Steady(call, Resumable(c))
    BY <2>1, <2>2, ResumableSteady, SteadyTwice
  <2>4. Steady(call, call') /\ consent' = consent
    BY <1>2, <2>1, <2>3 DEF ExhaustedCommand, c
  <2>5. CASE EntryNow # 0 /\ EntryNow = of /\ seg[of].stage = "live"
    <3>1. of \in Segments /\ seg' = Closed(of)
      BY <1>2, <2>5, EntryIs DEF ExhaustedCommand
    <3>2. ClosesOnly({of})
      BY <3>1, ClosedDoes DEF CInv, Controlled
    <3> DEFINE C == {of}
    <3>3. C \in SUBSET Segments /\ ClosesOnly(C)
      BY <3>1, <3>2
    <3> HIDE DEF C
    <3>4. /\ call'.provider = call.provider /\ call'.epoch >= call.epoch /\ consent' >= consent
          /\ call.state = "ended" => call'.state = "ended"
      BY <1>0, <2>4 DEF Steady
    <3> QED
      BY <3>3, <3>4, ClosesOnward
  <2>6. CASE seg' = seg
    BY <2>4, <2>6, UntouchedIsGentle DEF Gentle
  <2> QED
    BY <1>2, <2>5, <2>6 DEF ExhaustedCommand
<1>3. CASE EndCommand
  <2> DEFINE C == {entry} \cap Segments
  <2>1. call' = EndCall(call) /\ CloseWhatRuns /\ consent' = consent
    BY <1>3 DEF EndCommand
  <2>2. ClosesOnly(C) /\ C \in SUBSET Segments
    BY <2>1, WhatRunsCloses
  <2>3. /\ call'.state = "ended" /\ call'.provider = call.provider /\ call'.epoch >= call.epoch /\ consent' >= consent
    BY <1>0, <2>1, EndCallDoes
  <2> HIDE DEF C
  <2> QED
    BY <2>2, <2>3, ClosesOnward
<1> QED
  BY <1>1, <1>2, <1>3

\* A takeover closes what was live.
LEMMA TakeOverOnward ==
  ASSUME CInv, TakeOver
  PROVE  Onward /\ \A s \in Segments : Live(s) => ~Live(s)'
<1> DEFINE C == {entry} \cap Segments
<1>0. call \in Lifecycle /\ call.epoch \in Nat /\ consent \in Nat
  BY DEF CInv, Controlled, ControlTypes, Lifecycle
<1>1. call' = TakenOver(call) /\ call.state # "ended" /\ CloseWhatRuns /\ consent' = consent
  BY DEF TakeOver
<1>2. ClosesOnly(C) /\ C \in SUBSET Segments /\ \A s \in Segments : Runs(s) => s \in C
  BY <1>1, WhatRunsCloses
<1>3. call'.provider = call.provider /\ call'.epoch >= call.epoch /\ consent' >= consent
  BY <1>0, <1>1, TakenOverDoes
<1> HIDE DEF C
<1>4. Onward
  BY <1>1, <1>2, <1>3, ClosesOnward
<1>5. \A s \in Segments : Live(s) => ~Live(s)'
  BY <1>2 DEF ClosesOnly, Live, Runs
<1> QED
  BY <1>4, <1>5

-----------------------------------------------------------------------------
(* Every step of the tab and of the server *)

\* What the tab makes of its flight.
LEMMA FlightEdits ==
  ASSUME TabInv
  PROVE  /\ NoFlight \in FlightRecord /\ NoFlight.stage = "none" /\ NoFlight.of = 0
         /\ Moved \in FlightRecord /\ Moved.stage = flight.stage /\ Moved.of = flight.of /\ Moved.seg = flight.seg
         /\ \A b \in BOOLEAN : LET f == [flight EXCEPT !.stage = "failed", !.fatal = b] IN
              f \in FlightRecord /\ f.stage = "failed" /\ f.of = flight.of
         /\ \A x \in {"asking", "failed"} : LET f == [flight EXCEPT !.stage = x] IN
              f \in FlightRecord /\ f.stage = x /\ f.of = flight.of
         /\ \A s \in 0..MaxSegments : \A x \in {"waiting", "replied"} : LET f == [flight EXCEPT !.stage = x, !.seg = s] IN
              f \in FlightRecord /\ f.stage = x /\ f.of = flight.of /\ f.seg = s
<1>1. flight \in FlightRecord /\ 0 \in 0..MaxSegments
  BY CallAssumption DEF TabInv, TabTypes
<1>2. NoFlight \in FlightRecord /\ NoFlight.stage = "none" /\ NoFlight.of = 0
  BY <1>1 DEF NoFlight, FlightRecord
<1>3. Moved \in FlightRecord /\ Moved.stage = flight.stage /\ Moved.of = flight.of /\ Moved.seg = flight.seg
  BY <1>1 DEF Moved, FlightRecord
<1>4. \A b \in BOOLEAN : LET f == [flight EXCEPT !.stage = "failed", !.fatal = b] IN
        f \in FlightRecord /\ f.stage = "failed" /\ f.of = flight.of
  BY <1>1 DEF FlightRecord
<1>5. \A x \in {"asking", "failed"} : LET f == [flight EXCEPT !.stage = x] IN
        f \in FlightRecord /\ f.stage = x /\ f.of = flight.of
  BY <1>1 DEF FlightRecord
<1>6. \A s \in 0..MaxSegments : \A x \in {"waiting", "replied"} : LET f == [flight EXCEPT !.stage = x, !.seg = s] IN
        f \in FlightRecord /\ f.stage = x /\ f.of = flight.of /\ f.seg = s
  BY <1>1 DEF FlightRecord
<1> QED
  BY <1>2, <1>3, <1>4, <1>5, <1>6

\* A gentle step, of a tab that makes no more of it than to mark its flight.
LEMMA GentleKeeps ==
  ASSUME CInv, CInv', TabInv, Gentle, checks' \subseteq checks, Calm(tab, tab'), grant' = grant,
         flight' \in {flight, Moved}
  PROVE  TabInv'
<1>1. OldChecks
  BY DEF OldChecks
<1>2. \A g \in Segments : Sure(g) => Sure(g)'
  BY <1>1, SureKept DEF Gentle
<1>3. /\ flight' \in FlightRecord /\ flight'.stage = flight.stage /\ flight'.of = flight.of /\ flight'.seg = flight.seg
  BY FlightEdits DEF TabInv, TabTypes
<1> QED
  BY <1>2, <1>3, StaysOn DEF Gentle

\* In a recovery: it goes on without an answer, or ends; nobody is waited for.
LEMMA FlightGoesOn ==
  ASSUME CInv, CInv', TabInv, Onward, OldChecks, Flying, Calm(tab, tab'), grant' = grant,
         flight' \in FlightRecord, flight' = NoFlight \/ flight'.of = flight.of, flight'.stage # "replied",
         \A d \in checks' : ~d.waited
  PROVE  TabInv'
<1>1. flight'.of \in {0, flight.of, grant} /\ (flight'.stage # "none" => Flying /\ flight'.of = flight.of)
  BY FlightEdits
<1>2. \A g \in Segments : HasMedia /\ HasMedia' /\ grant = g => Sure(g)'
  BY DEF HasMedia
<1> QED
  BY <1>1, <1>2, GoesOn

\* Only a tab that waits for an answer is waited for by a check.
LEMMA NoneWaited == ASSUME TabInv, flight.stage # "waiting" PROVE \A c \in checks : ~c.waited
BY DEF TabInv, Asked

\* The checks a tab abandoned.
LEMMA AbandonedOld ==
  ASSUME CInv, checks' = Abandoned
  PROVE  OldChecks /\ \A d \in checks' : ~d.waited
<1> SUFFICES ASSUME NEW d \in checks', NEW c \in checks, d = [c EXCEPT !.waited = FALSE]
             PROVE  d.seg = c.seg /\ d.of = c.of /\ ~d.waited
  BY DEF OldChecks, Abandoned
<1>1. c = [seg |-> c.seg, of |-> c.of, explicit |-> c.explicit, waited |-> c.waited]
  BY DEF CInv, Controlled, ControlTypes
<1> QED
  BY <1>1

\* A segment the tab is sure of is the only live one, and no request is about to replace it.
LEMMA SureAlone ==
  ASSUME CInv, NEW g \in Segments, Sure(g)
  PROVE  /\ \A s \in Segments : Live(s) => s = g
         /\ \A c \in checks : Live(c.seg) => c.of # c.seg
<1>1. \A s \in Segments : Live(s) => slot = s /\ Authorized(s) /\ call.state # "ended" /\ Runs(s)
  BY DEF CInv, Controlled, Live, Runs
<1>2. \A c \in checks : c.seg \in Segments
  BY DEF CInv, Controlled, ControlTypes
<1> QED
  BY <1>1, <1>2 DEF Sure, Nobody

\* A step that leaves the server as it is.
LEMMA SameIsGentle == ASSUME CInv, UNCHANGED <<call, seg, consent>> PROVE Gentle
BY UntouchedIsGentle, SteadyEvents DEF CInv, Controlled, ControlTypes

\* Holds of the tab, its pauses, and what befalls the server alone.
LEMMA QuietKeeps ==
  ASSUME CInv, CInv', TabInv,
         \/ \E s \in Segments : CloseStep(s) \/ Unconfirmed(s)
         \/ LeaseLapses \/ GoToSleep \/ WakeUp \/ HearRestart \/ Pause \/ Unpause \/ Acknowledge \/ ResumeLost
         \/ ResumeStep \/ PauseRefused \/ TextPause \/ NewConsent
  PROVE  TabInv'
<1>0. tab \in TabRecord /\ {"pause", "waiting", "sleep", "wake", "server-restart"} \subseteq Reasons
  BY DEF TabInv, TabTypes, Reasons
<1>1. Calm(tab, tab)
  BY <1>0, CalmEvents
<1>2. CASE \E s \in Segments : CloseStep(s) \/ Unconfirmed(s)
  <2>1. Gentle /\ checks' = checks
    BY <1>2, EndIsGentle DEF CloseStep, Unconfirmed
  <2>2. UNCHANGED <<tab, grant, flight>>
    BY <1>2 DEF CloseStep, Unconfirmed, tabVars
  <2> QED
    BY <1>1, <2>1, <2>2, GentleKeeps
<1>3. CASE LeaseLapses \/ GoToSleep \/ WakeUp \/ HearRestart
  <2>1. UNCHANGED <<call, seg, consent, checks, grant>> /\ flight' = Moved
    BY <1>3 DEF LeaseLapses, GoToSleep, WakeUp, HearRestart, Hold, serverVars, durable, process
  <2>2. Calm(tab, tab')
    BY <1>0, <1>3, CalmEvents DEF LeaseLapses, GoToSleep, WakeUp, HearRestart, Hold
  <2>3. Gentle
    BY <2>1, SameIsGentle
  <2> QED
    BY <2>1, <2>2, <2>3, GentleKeeps
<1>4. CASE Pause \/ Unpause \/ Acknowledge \/ ResumeLost
  <2>1. Gentle /\ checks' = checks
    <3>1. CASE UNCHANGED serverVars
      BY <3>1, SameIsGentle DEF serverVars, durable, process
    <3>2. CASE ~UNCHANGED serverVars
      BY <1>4, <3>2, PauseIsGentle DEF Pause, Unpause, Acknowledge, ResumeLost
    <3> QED
      BY <3>1, <3>2
  <2>2. Calm(tab, tab') /\ UNCHANGED <<grant, flight>>
    BY <1>0, <1>1, <1>4, CalmEvents DEF Pause, Unpause, Acknowledge, ResumeLost
  <2> QED
    BY <2>1, <2>2, GentleKeeps
<1>5. CASE ResumeStep \/ PauseRefused \/ TextPause \/ NewConsent
  <2>1. Gentle /\ checks' = checks
    BY <1>5, PauseIsGentle, ConsentIsGentle DEF ResumeStep, PauseRefused, TextPause, NewConsent
  <2>2. UNCHANGED <<tab, grant, flight>>
    BY <1>5 DEF ResumeStep, PauseRefused, TextPause, NewConsent, tabVars
  <2> QED
    BY <1>1, <2>1, <2>2, GentleKeeps
<1> QED
  BY <1>2, <1>3, <1>4, <1>5

\* A lease lapses at the server only when the tab is not on its segment any more.
LEMMA ExpireKeeps == ASSUME CInv, CInv', TabInv, NEW s \in Segments, Expire(s) PROVE TabInv'
<1>1. Onward /\ Alone /\ checks' = checks /\ (\A g \in Segments : g # s /\ Live(g) => Live(g)') /\ ~On(s)
  BY LeaseSpares DEF Expire
<1>2. OldChecks
  BY <1>1 DEF OldChecks
<1>3. \A g \in Segments : On(g) /\ Sure(g) => Sure(g)'
  BY <1>1, <1>2, SureKept DEF Spares
<1>4. UNCHANGED <<tab, grant, flight>> /\ Calm(tab, tab) /\ flight \in FlightRecord
  BY CalmEvents DEF Expire, TabInv, TabTypes
<1> QED
  BY <1>1, <1>3, <1>4, StaysOn

\* The step of a start that is not answered yet, or whose failure is.
LEMMA FailsKeeps ==
  ASSUME CInv, CInv', TabInv, Gentle, checks' \subseteq checks, UNCHANGED <<tab, grant>>,
         NEW fatal \in BOOLEAN, flight' = flight \/ (Fails(fatal) /\ Flying /\ \A d \in checks' : ~d.waited)
  PROVE  TabInv'
<1>1. Calm(tab, tab) /\ OldChecks
  BY CalmEvents DEF TabInv, TabTypes, OldChecks
<1>2. CASE flight' = flight
  BY <1>1, <1>2, GentleKeeps
<1>3. CASE Fails(fatal) /\ Flying /\ \A d \in checks' : ~d.waited
  <2>1. flight' \in FlightRecord /\ flight'.of = flight.of /\ flight'.stage = "failed"
    BY <1>3, FlightEdits DEF Fails
  <2> QED
    BY <1>1, <1>3, <2>1, FlightGoesOn DEF Gentle
<1> QED
  BY <1>2, <1>3

\* A start that connects answers the tab that waits for it, with a live segment.
LEMMA StartStepKeeps == ASSUME CInv, CInv', TabInv, NEW s \in Segments, StartStep(s) PROVE TabInv'
<1>0. Gentle /\ checks' = checks /\ UNCHANGED <<tab, grant>> /\ Calm(tab, tab) /\ OldChecks
  BY StartIsGentle, CalmEvents DEF StartStep, TabInv, TabTypes, OldChecks
<1>n. Waits(s) => Flying /\ \A c \in checks : ~c.waited
  BY CallAssumption DEF Waits, Flying, Segments, TabInv, Asked
<1>1. CASE flight' = flight
  BY <1>0, <1>1, FailsKeeps
<1>2. CASE Refuse(s) /\ Waits(s) /\ Fails(TRUE)
  BY <1>0, <1>n, <1>2, FailsKeeps
<1>3. CASE Connect(s) /\ Waits(s) /\ Replied(s)
  <2>1. s \in 0..MaxSegments /\ s # 0
    BY CallAssumption DEF Segments
  <2>2. flight' \in FlightRecord /\ flight'.stage = "replied" /\ flight'.of = flight.of /\ flight'.seg = s
    BY <1>3, <2>1, FlightEdits DEF Replied
  <2>3. /\ seg[s].stage = "dispatched" /\ seg' = [seg EXCEPT ![s].stage = "live"]
        /\ Authorized(s) /\ call.state # "ended"
    BY <1>3 DEF Connect, Move
  <2>4. seg'[s].stage = "live" /\ seg'[s].closing = seg[s].closing /\ ~seg[s].closing
    BY <2>3, MoveDoes DEF CInv, Controlled, Stages, Starting
  <2>5. \A c \in checks' : c.seg # s
    BY <1>0, <2>3 DEF CInv, Controlled
  <2>6. Sure(s)' /\ seg'[s].stage \in {"live", "gone"}
    BY <2>4, <2>5 DEF Sure, Live
  <2>7. \A g \in Segments : HasMedia /\ HasMedia' /\ grant = g => Sure(g)'
    BY <1>n, <1>3 DEF HasMedia
  <2> QED
    BY <1>0, <1>n, <1>3, <2>1, <2>2, <2>6, <2>7, GoesOn DEF Gentle
<1> QED
  BY <1>1, <1>2, <1>3 DEF StartStep

\* A start that fails.
LEMMA StartRefusedKeeps ==
  ASSUME CInv, CInv', TabInv, NEW s \in Segments, NEW confirmed \in BOOLEAN, NEW fatal \in BOOLEAN,
         StartRefused(s, confirmed, fatal)
  PROVE  TabInv'
<1>1. Gentle /\ checks' = checks /\ UNCHANGED <<tab, grant>>
  BY EndIsGentle DEF StartRefused
<1>2. Waits(s) => Flying /\ \A c \in checks : ~c.waited
  BY CallAssumption DEF Waits, Flying, Segments, TabInv, Asked
<1> QED
  BY <1>1, <1>2, FailsKeeps DEF StartRefused

\* The answer of a check: the segment that replaced the tab's own, which no other
\* request of the tab asks to replace.
LEMMA CheckStepStays ==
  ASSUME CInv, CInv', TabInv, NEW c \in checks, CheckStep(c) \/ CheckRefused(c)
  PROVE  TabInv'
<1>0. /\ UNCHANGED <<tab, grant>> /\ Calm(tab, tab) /\ c.seg \in Segments /\ c.seg # 0 /\ c.seg \in 0..MaxSegments
      /\ seg[c.seg].stage \in {"live", "gone"} /\ (seg[c.seg].stage = "gone" => seg[c.seg].closing)
  <2>1. UNCHANGED <<tab, grant>> /\ Calm(tab, tab)
    BY CalmEvents DEF CheckStep, CheckRefused, TabInv, TabTypes
  <2>2. /\ c.seg \in Segments /\ seg[c.seg].stage \in {"live", "gone"}
        /\ seg[c.seg].stage = "gone" => seg[c.seg].closing
    BY DEF CInv, Controlled, ControlTypes
  <2>3. c.seg # 0 /\ c.seg \in 0..MaxSegments
    BY <2>2, CallAssumption DEF Segments
  <2> QED
    BY <2>1, <2>2, <2>3
<1>1. checks' = checks \ {c} /\ OldChecks
  BY DEF CheckStep, CheckRefused, CheckAnswers, CheckReplaces, CheckConflicts, CheckFails, OldChecks
<1>2. c.waited => flight.stage = "waiting" /\ Flying /\ flight.of = c.of /\ flight.seg = 0 /\ \A d \in checks' : ~d.waited
  BY <1>1 DEF TabInv, Asked, Flying
<1>3. ASSUME CheckConflicts(c) \/ CheckFails(c), NEW fatal \in BOOLEAN,
             IF c.waited THEN Fails(fatal) ELSE UNCHANGED flight
      PROVE  TabInv'
  <2>1. Gentle
    BY <1>3, CheckIsGentle
  <2> QED
    BY <1>0, <1>1, <1>2, <1>3, <2>1, FailsKeeps
<1>4. CASE CheckAnswers(c) /\ IF c.waited THEN Replied(c.seg) ELSE UNCHANGED flight
  <2>1. Gentle
    BY <1>4, CheckIsGentle
  <2>2. CASE flight' = flight
    BY <1>0, <1>1, <2>1, <2>2, GentleKeeps
  <2>3. CASE c.waited /\ Replied(c.seg)
    <3>1. flight' \in FlightRecord /\ flight'.stage = "replied" /\ flight'.of = flight.of /\ flight'.seg = c.seg
      BY <1>0, <2>3, FlightEdits DEF Replied
    <3>2. Live(c.seg) /\ c.of # c.seg /\ UNCHANGED seg
      BY <1>0, <1>4 DEF CheckAnswers, Answered, Live
    <3> DEFINE s == c.seg
    <3>3. s \in Segments /\ Live(s) /\ seg' = seg /\ s # flight.of
      BY <1>0, <1>2, <2>3, <3>2
    <3>4. \A d \in checks : d.seg = s => d.of # s
      BY <1>2, <2>3, <3>3 DEF TabInv, Asked
    <3>5. Sure(s)' /\ seg'[s].stage \in {"live", "gone"}
      BY <1>1, <3>3, <3>4 DEF Sure, Live
    <3>6. flight'.seg = s /\ s # 0
      BY <1>0, <3>1
    <3> HIDE DEF s
    <3>7. \A g \in Segments : HasMedia /\ HasMedia' /\ grant = g => Sure(g)'
      BY <1>2, <2>3 DEF HasMedia
    <3> QED
      BY <1>0, <1>1, <1>2, <2>1, <2>3, <3>1, <3>5, <3>6, <3>7, GoesOn DEF Gentle
  <2> QED
    BY <1>4, <2>2, <2>3
<1>5. ASSUME NEW s \in Segments, CheckReplaces(c, s), flight' = IF c.waited THEN [flight EXCEPT !.seg = s] ELSE flight
      PROVE  TabInv'
  <2>1. Onward /\ \A g \in Segments : Sure(g) => Sure(g)'
    BY <1>5, ReplaceOnward
  <2>2. CASE ~c.waited
    <3>1. flight' = flight /\ flight \in FlightRecord /\ checks' \subseteq checks
      BY <1>1, <1>5, <2>2 DEF TabInv, TabTypes
    <3> QED
      BY <1>0, <2>1, <3>1, StaysOn
  <2>3. CASE c.waited
    <3>1. s \in 0..MaxSegments /\ flight \in FlightRecord
      BY CallAssumption DEF Segments, TabInv, TabTypes
    <3>2. flight' = [flight EXCEPT !.seg = s]
      BY <1>5, <2>3
    <3>3. flight' \in FlightRecord /\ flight'.stage = flight.stage /\ flight'.of = flight.of
      BY <3>1, <3>2 DEF FlightRecord
    <3> QED
      BY <1>0, <1>1, <1>2, <2>1, <2>3, <3>3, FlightGoesOn
  <2> QED
    BY <2>2, <2>3
<1> QED
  BY <1>3, <1>4, <1>5 DEF CheckStep, CheckRefused

\* The receipt, or what fails of it, gives the tab the segment it is sure of.
LEMMA ReceiptKeeps == ASSUME CInv, CInv', TabInv, Receive \/ MediaFails PROVE TabInv'
<1>t. /\ flight.stage = "replied" /\ Flying /\ grant' = flight.seg
      /\ tab \in TabRecord /\ flight \in FlightRecord /\ call.provider \in 0..MaxSegments
  BY DEF Receive, MediaFails, Flying, TabInv, TabTypes
<1>s. flight.seg \in 0..MaxSegments /\ flight.seg # 0 /\ flight.seg \in Segments
  BY <1>t, CallAssumption DEF TabInv, TabTypes, FlightRecord, Segments
<1> PICK h \in Segments : h = flight.seg
  BY <1>s
<1>0. grant' = h /\ h # 0 /\ h \in 0..MaxSegments /\ On(h)
  BY <1>t, <1>s DEF On
<1>1. Sure(h) /\ seg[h].stage \in {"live", "gone"}
  BY <1>0 DEF TabInv, Followed, Behind
<1>2. checks' = checks /\ \A c \in checks : ~c.waited
  BY <1>t, NoneWaited DEF Receive, MediaFails, serverVars, process
<1>3. /\ \A s \in Segments : Live(s) => s = h
      /\ \A c \in checks : Live(c.seg) => c.of # c.seg
  BY <1>0, <1>1, SureAlone
<1>4. Onward
  <2>1. CASE CloseCommand(h)
    BY <2>1, CommandOnward
  <2>2. CASE UNCHANGED <<call, seg, consent>>
    BY <2>2, SameIsGentle DEF Gentle
  <2> QED
    BY <2>1, <2>2 DEF Receive, MediaFails, serverVars, durable, process
<1>5. \A s \in Segments : seg[s].stage \in {"live", "gone"} /\ Live(s)' => Live(s)
  <2>1. \A s \in Segments : seg[s].stage \in {"live", "gone"} => seg[s].stage # "none"
    OBVIOUS
  <2> QED
    BY <1>4, <2>1, OnwardFacts
<1>6. \A c \in checks' : c.of = c.seg => ~Live(c.seg)'
  <2> SUFFICES ASSUME NEW c \in checks, c.of = c.seg, Live(c.seg)' PROVE FALSE
    BY <1>2
  <2> DEFINE s == c.seg
  <2>1. s \in Segments /\ seg[s].stage \in {"live", "gone"} /\ Live(s)'
    BY DEF CInv, Controlled, ControlTypes
  <2> HIDE DEF s
  <2>2. Live(s)
    BY <1>5, <2>1
  <2> QED
    BY <1>3, <2>2 DEF s
<1>7. Asked'
  BY <1>2, <1>6 DEF Asked
<1>8. call'.provider \in 0..MaxSegments
  BY <1>t, <1>4, CallAssumption DEF Onward, Segments
<1>9. CASE MediaFails
  <2>1. flight' \in FlightRecord /\ flight'.of = flight.of /\ flight'.stage = "failed" /\ tab' = tab
    BY <1>9, FlightEdits DEF MediaFails, Fails
  <2>2. TabTypes'
    BY <1>t, <1>0, <1>8, <2>1 DEF TabInv, TabTypes, Joined, Flying
  <2>3. \A s \in Segments : ~On(s)'
    BY <2>1 DEF On, HasMedia, Flying
  <2>4. Behind'
    BY <1>0, <1>1, <1>4, <2>1, <2>3 DEF TabInv, Behind, Onward
  <2>5. Replaced'
    <3> SUFFICES ASSUME NEW s \in Segments, flight'.of = s, Live(s)' PROVE s = h
      BY <1>0 DEF Replaced
    <3>1. seg[s].stage \in {"live", "gone"}
      BY <2>1 DEF TabInv, Behind
    <3> QED
      BY <1>3, <1>5, <3>1
  <2> QED
    BY <1>7, <2>2, <2>3, <2>4, <2>5 DEF TabInv, Followed
<1>10. CASE Receive
  <2>1. flight' = NoFlight /\ NoFlight \in FlightRecord /\ NoFlight.stage = "none" /\ NoFlight.of = 0
        /\ UNCHANGED <<call, seg, consent, checks>>
    BY <1>10, FlightEdits DEF Receive, serverVars, durable, process
  <2> DEFINE t == IF grant = 0 THEN [tab EXCEPT !.epoch = call.epoch] ELSE tab
             u == Connected(t, IF grant = 0 THEN call.epoch ELSE tab.epoch, h, 0)
  <2>2. call.epoch \in Nat /\ h \in Nat
    BY <1>0, CallAssumption DEF CInv, Controlled, ControlTypes, Lifecycle
  <2>3. t \in TabRecord
    BY <1>t, <2>2 DEF TabRecord
  <2> HIDE DEF t
  <2>4. u \in TabRecord
    BY <2>2, <2>3 DEF Connected, TabRecord, States
  <2>5. tab' = IF flight.moved THEN tab ELSE u
    BY <1>10 DEF Receive, u, t
  <2> HIDE DEF u
  <2>6. TabTypes'
    BY <1>t, <1>0, <1>8, <2>1, <2>4, <2>5 DEF TabInv, TabTypes, Flying
  <2>7. \A s \in Segments : On(s)' => s = h
    BY <1>0, <2>1 DEF On
  <2>8. Behind'
    BY <1>0, <1>1, <2>1, <2>7, CallAssumption DEF TabInv, Behind, Segments
  <2>9. Replaced'
    BY <2>1 DEF Replaced, Flying
  <2>10. Sure(h)'
    BY <1>1, <2>1 DEF Sure, Nobody, Live, Runs, Starting, Authorized, Controls
  <2>11. Followed'
    BY <2>7, <2>10 DEF Followed
  <2> QED
    BY <1>7, <2>6, <2>8, <2>9, <2>11 DEF TabInv
<1> QED
  BY <1>9, <1>10

\* The recoveries and starts that a tab takes off with: of the segment it was given.
LEMMA DepartureKeeps ==
  ASSUME CInv, CInv', TabInv, Drop \/ Retry \/ \E s \in Segments : FirstCall(s)
  PROVE  TabInv'
<1>0. /\ tab \in TabRecord /\ grant \in 0..MaxSegments /\ Allowance \in Nat /\ 0 \in 0..MaxSegments
      /\ ~Flying /\ flight.stage = "none" /\ (Joined => grant # 0) /\ grant' = grant
  <2>1. ~Flying /\ grant' = grant
    BY DEF Drop, Retry, FirstCall
  <2> QED
    BY <2>1, AllowanceAssumption, CallAssumption DEF TabInv, TabTypes, Flying
<1>n. /\ NoFlight \in FlightRecord /\ NoFlight.stage = "none" /\ NoFlight.of = 0
  BY FlightEdits
<1>1. ASSUME checks' = checks, Onward, flight' \in FlightRecord, flight'.of = grant,
             flight'.stage \in {"none", "preparing", "asking", "waiting"},
             flight'.stage # "none" => (Joined => tab'.needsRecovery \/ tab'.state = "ended"),
             Calm(tab, tab'), flight'.stage # "none"
      PROVE  TabInv'
  <2>1. OldChecks /\ \A d \in checks' : ~d.waited
    BY <1>0, <1>1, NoneWaited DEF OldChecks
  <2>2. \A g \in Segments : ~(HasMedia' /\ grant = g)
    BY <1>1 DEF HasMedia, Flying
  <2> QED
    BY <1>0, <1>1, <2>1, <2>2, GoesOn
<1>2. CASE \E s \in Segments : FirstCall(s)
  <2> PICK s \in Segments : FirstCall(s)
    BY <1>2
  <2>1. Steady(call, Start(call)) /\ Calm(tab, tab)
    BY <1>0, SteadyEvents, CalmEvents DEF CInv, Controlled, ControlTypes
  <2>2. Onward /\ checks' = checks
    BY <2>1, BeginOnward DEF FirstCall, Begin
  <2>3. s \in 0..MaxSegments
    BY CallAssumption DEF Segments
  <2>4. flight' \in FlightRecord /\ flight'.of = 0 /\ flight'.stage = "waiting" /\ grant = 0 /\ tab' = tab
    BY <1>n, <2>3 DEF FirstCall, FlightRecord
  <2> QED
    BY <1>0, <1>1, <2>1, <2>2, <2>4
<1>3. ASSUME UNCHANGED serverVars PROVE Onward /\ checks' = checks
  BY <1>3, SameIsGentle DEF serverVars, durable, process, Gentle
<1>4. \A b \in BOOLEAN : LET f == Takeoff(b) IN
        /\ f \in FlightRecord /\ f.of = grant /\ f.stage = "preparing"
        /\ LET a == [f EXCEPT !.stage = "asking", !.left = 1] IN
             a \in FlightRecord /\ a.of = grant /\ a.stage = "asking"
  <2> SUFFICES ASSUME NEW b \in BOOLEAN
               PROVE LET f == Takeoff(b) IN
                     /\ f \in FlightRecord /\ f.of = grant /\ f.stage = "preparing"
                     /\ LET a == [f EXCEPT !.stage = "asking", !.left = 1] IN
                          a \in FlightRecord /\ a.of = grant /\ a.stage = "asking"
    OBVIOUS
  <2> DEFINE p == "preparing"
             q == "asking"
             one == 1
             f == [NoFlight EXCEPT !.stage = p, !.of = grant, !.left = Allowance, !.explicit = b]
             a == [f EXCEPT !.stage = q, !.left = one]
  <2>2. /\ p \in {"preparing", "asking"} /\ q \in {"preparing", "asking"} /\ one \in Int /\ Allowance \in Int
    BY <1>0
  <2>3. Takeoff(b) = f /\ [Takeoff(b) EXCEPT !.stage = "asking", !.left = 1] = a
    BY DEF Takeoff
  <2>4. p = "preparing" /\ q = "asking"
    OBVIOUS
  <2> HIDE DEF p, q, one
  <2>5. f \in FlightRecord /\ f.of = grant /\ f.stage = p
    <3> DEFINE l == Allowance
               o == grant
    <3>1. l \in Int /\ o \in 0..MaxSegments
      BY <1>0, <2>2
    <3> HIDE DEF l, o
    <3>2. LET d == [NoFlight EXCEPT !.stage = p, !.of = o, !.left = l, !.explicit = b] IN
            d \in FlightRecord /\ d.of = o /\ d.stage = p
      BY <1>n, <2>2, <3>1 DEF FlightRecord
    <3> QED
      BY <3>2 DEF l, o
  <2> HIDE DEF f
  <2>6. a \in FlightRecord /\ a.of = grant /\ a.stage = q
    BY <2>2, <2>5 DEF FlightRecord
  <2> HIDE DEF a
  <2> QED
    BY <2>3, <2>4, <2>5, <2>6
<1>5. CASE Drop /\ flight' = flight
  <2>1. Gentle /\ checks' = checks
    BY <1>5, SameIsGentle DEF Drop, serverVars, durable, process
  <2>2. Calm(tab, tab')
    BY <1>0, <1>5, CalmEvents DEF Drop
  <2> QED
    BY <1>0, <1>5, <2>1, <2>2, GentleKeeps
<1>6. CASE Drop /\ flight' = Takeoff(FALSE)
  <2>1. Calm(tab, tab') /\ (tab'.needsRecovery \/ tab'.state = "ended") /\ UNCHANGED serverVars
    BY <1>0, <1>6, CalmEvents DEF Drop, Calm
  <2> QED
    BY <1>1, <1>3, <1>4, <1>6, <2>1
<1>7. CASE Retry
  <2> DEFINE t == RetryRequested(tab)
  <2>1. t \in TabRecord /\ Calm(tab, t)
    BY <1>0, CalmEvents DEF Calm
  <2> HIDE DEF t
  <2>2. tab' = TransportLost(t) /\ UNCHANGED serverVars
    BY <1>7 DEF Retry, t
  <2>3. Calm(t, tab') /\ (tab'.needsRecovery \/ t.state = "ended")
    BY <2>1, <2>2, CalmEvents
  <2>4. Calm(tab, tab') /\ (tab'.needsRecovery \/ tab'.state = "ended")
    BY <2>1, <2>3 DEF Calm
  <2>5. flight' \in FlightRecord /\ flight'.of = grant /\ flight'.stage \in {"preparing", "asking"}
    BY <1>4, <1>7 DEF Retry
  <2> QED
    BY <1>1, <1>3, <2>2, <2>4, <2>5
<1> QED
  BY <1>2, <1>5, <1>6, <1>7 DEF Drop

\* One request to recover.
LEMMA AskKeeps == ASSUME CInv, CInv', TabInv, Ask PROVE TabInv'
<1>0. /\ flight.stage = "asking" /\ Flying /\ grant' = grant /\ tab' = RecoveryAttempt(tab) /\ 0 \in 0..MaxSegments
      /\ flight \in FlightRecord /\ tab \in TabRecord
  <2>1. flight.stage = "asking" /\ grant' = grant /\ tab' = RecoveryAttempt(tab)
    BY DEF Ask
  <2> QED
    BY <2>1, CallAssumption DEF Flying, TabInv, TabTypes
<1>1. Calm(tab, tab') /\ \A c \in checks : ~c.waited
  BY <1>0, CalmEvents, NoneWaited
<1>2. ASSUME NEW b \in BOOLEAN, Fails(b)
      PROVE  flight' \in FlightRecord /\ flight'.of = flight.of /\ flight'.stage = "failed"
  BY <1>2, FlightEdits DEF Fails
<1>3. CASE UNCHANGED serverVars /\ \E b \in BOOLEAN : Fails(b)
  <2>1. Onward /\ OldChecks /\ checks' = checks
    BY <1>3, SameIsGentle DEF serverVars, durable, process, Gentle, OldChecks
  <2> QED
    BY <1>0, <1>1, <1>2, <1>3, <2>1, FlightGoesOn
<1>4. CASE RecoverAsk(flight.of, flight.explicit) /\ flight' = [flight EXCEPT !.stage = "waiting", !.seg = 0]
  <2> DEFINE n == [seg |-> EntryNow, of |-> flight.of, explicit |-> flight.explicit, waited |-> TRUE]
  <2>1. checks' = checks \cup {n} /\ UNCHANGED <<call, seg, consent>>
    BY <1>4 DEF RecoverAsk, durable
  <2>2. flight' \in FlightRecord /\ flight'.stage = "waiting" /\ flight'.of = flight.of /\ flight'.seg = 0
    BY <1>0, <1>4, FlightEdits
  <2>3. n.seg = EntryNow /\ n.of = flight.of /\ n.waited
    OBVIOUS
  <2>4. EntryNow # 0 /\ EntryNow \in Segments
    BY <1>4, EntryIs DEF RecoverAsk
  <2> HIDE DEF n
  <2>5. TabTypes'
    BY <1>0, <1>1, <2>1, <2>2 DEF TabInv, TabTypes, Calm, Joined, Flying
  <2>6. \A s \in Segments : ~On(s)'
    BY <2>2 DEF On, HasMedia, Flying
  <2>7. Behind'
    BY <1>0, <2>1, <2>2, <2>6 DEF TabInv, Behind
  <2>8. \A s \in Segments : Live(s)' <=> Live(s)
    BY <2>1 DEF Live
  <2>9. Replaced'
    BY <1>0, <2>2, <2>8 DEF TabInv, Replaced, Flying
  <2>10. ASSUME NEW d \in checks', d.of = d.seg, Live(d.seg)' PROVE grant = d.seg /\ flight.of = d.seg
    <3>1. Live(d.seg)
      BY <2>1, <2>10 DEF Live
    <3>2. CASE d \in checks
      BY <1>0, <2>10, <3>1, <3>2 DEF TabInv, Asked
    <3>3. CASE d = n
      BY <1>0, <2>3, <2>4, <2>10, <3>1, <3>3 DEF TabInv, Replaced
    <3> QED
      BY <2>1, <3>2, <3>3
  <2>11. \A d \in checks' : d.waited => d = n
    BY <1>1, <2>1
  <2>12. Asked'
    BY <1>0, <2>2, <2>3, <2>10, <2>11 DEF Asked
  <2> QED
    BY <2>5, <2>6, <2>7, <2>9, <2>12 DEF TabInv, Followed
<1>5. ASSUME NEW s \in Segments, RecoverAfresh(flight.of, s, flight.explicit),
             flight' = [flight EXCEPT !.stage = "waiting", !.seg = s]
      PROVE  TabInv'
  <2>1. Enter(seg, s, 0) /\ UNCHANGED <<call, consent, checks>> /\ OldChecks
    BY <1>5 DEF RecoverAfresh, durable, OldChecks
  <2>2. Steady(call, call')
    BY <2>1, SteadyEvents DEF CInv, Controlled, ControlTypes
  <2>3. Onward
    BY <2>1, <2>2, BeginOnward
  <2>4. s \in 0..MaxSegments
    BY CallAssumption DEF Segments
  <2>5. flight' \in FlightRecord /\ flight'.stage = "waiting" /\ flight'.of = flight.of
    BY <1>5, <2>4, FlightEdits
  <2> QED
    BY <1>0, <1>1, <2>1, <2>3, <2>5, FlightGoesOn
<1> QED
  BY <1>3, <1>4, <1>5 DEF Ask, RecoverBusy

\* A recovery that goes on without an answer, or is over.
LEMMA FlightStepKeeps ==
  ASSUME CInv, CInv', TabInv,
         Prepare \/ Superseded \/ AttemptFailed \/ FailedWhenMoved \/ AuthorityLost \/ StartFailed \/ Exhaust
           \/ AskLost \/ GiveUp
  PROVE  TabInv'
<1>0. /\ Flying /\ grant' = grant /\ flight \in FlightRecord /\ tab \in TabRecord /\ 0 \in 0..MaxSegments
      /\ Calm(tab, tab)
  <2>1. Flying /\ grant' = grant
    BY DEF Prepare, Superseded, AttemptFailed, FailedWhenMoved, AuthorityLost, StartFailed, Exhaust, AskLost, GiveUp, Flying
  <2> QED
    BY <2>1, CallAssumption, CalmEvents DEF TabInv, TabTypes
<1>1. /\ UNCHANGED <<call, seg, consent>> => Onward
      /\ \A of : CloseCommand(of) \/ ExhaustedCommand(of) => Onward
      /\ EndCommand => Onward
  BY SameIsGentle, CommandOnward DEF Gentle
<1>2. checks' = checks /\ flight.stage # "waiting" => OldChecks /\ \A d \in checks' : ~d.waited
  BY NoneWaited DEF OldChecks
<1>3. checks' = Abandoned => OldChecks /\ \A d \in checks' : ~d.waited
  BY AbandonedOld
<1>4. CASE Prepare
  <2>1. flight' \in FlightRecord /\ flight'.of = flight.of /\ flight'.stage = "asking"
    BY <1>4, FlightEdits DEF Prepare
  <2>2. Onward /\ checks' = checks /\ flight.stage # "waiting" /\ tab' = tab
    BY <1>1, <1>4 DEF Prepare, Delivered
  <2> QED
    BY <1>0, <1>2, <2>1, <2>2, FlightGoesOn
<1>5. CASE Superseded \/ FailedWhenMoved
  <2>1. flight' = NoFlight /\ flight' \in FlightRecord /\ flight'.stage = "none"
    BY <1>5, FlightEdits DEF Superseded, FailedWhenMoved
  <2>2. Onward /\ checks' = checks /\ flight.stage # "waiting" /\ tab' = tab
    BY <1>1, <1>5 DEF Superseded, FailedWhenMoved, serverVars, durable, process
  <2> QED
    BY <1>0, <1>2, <2>1, <2>2, FlightGoesOn
<1>6. CASE AttemptFailed
  <2> DEFINE st == IF flight.left = 1 THEN "exhausted" ELSE "asking"
             l == flight.left - 1
  <2>1. flight' = [flight EXCEPT !.stage = st, !.left = l, !.seg = 0]
    BY <1>6 DEF AttemptFailed
  <2>2. st \in {"asking", "exhausted"} /\ l \in Int
    BY <1>0 DEF FlightRecord
  <2> HIDE DEF st, l
  <2>3. flight' \in FlightRecord /\ flight'.of = flight.of /\ flight'.stage \in {"asking", "exhausted"}
    BY <1>0, <2>1, <2>2 DEF FlightRecord
  <2>4. Onward /\ checks' = checks /\ flight.stage # "waiting"
    BY <1>1, <1>6 DEF AttemptFailed, serverVars, durable, process
  <2>5. Calm(tab, tab')
    BY <1>0, <1>6, CalmEvents DEF AttemptFailed
  <2> QED
    BY <1>0, <1>2, <2>3, <2>4, <2>5, FlightGoesOn
<1>7. CASE AuthorityLost \/ StartFailed
  <2>1. flight' = NoFlight /\ flight' \in FlightRecord /\ flight'.stage = "none"
    BY <1>7, FlightEdits DEF AuthorityLost, StartFailed
  <2>2. Onward /\ checks' = Abandoned
    BY <1>1, <1>7 DEF AuthorityLost, StartFailed, Delivered, durable
  <2>3. Calm(tab, tab')
    BY <1>0, <1>7, CalmEvents DEF AuthorityLost, StartFailed
  <2> QED
    BY <1>0, <1>3, <2>1, <2>2, <2>3, FlightGoesOn
<1>8. CASE Exhaust
  <2>1. flight' = NoFlight /\ flight' \in FlightRecord /\ flight'.stage = "none"
    BY <1>8, FlightEdits DEF Exhaust
  <2>2. Onward /\ checks' = checks /\ flight.stage # "waiting"
    BY <1>1, <1>8 DEF Exhaust, Delivered
  <2>3. Calm(tab, tab')
    BY <1>0, <1>8, CalmEvents DEF Exhaust
  <2> QED
    BY <1>0, <1>2, <2>1, <2>2, <2>3, FlightGoesOn
<1>9. CASE AskLost
  <2>1. flight' \in FlightRecord /\ flight'.of = flight.of /\ flight'.stage = "failed"
    BY <1>9, FlightEdits DEF AskLost, Fails
  <2>2. Onward /\ checks' = checks /\ flight.stage # "waiting"
    BY <1>1, <1>9 DEF AskLost, serverVars, durable, process
  <2>3. Calm(tab, tab')
    BY <1>0, <1>9, CalmEvents DEF AskLost
  <2> QED
    BY <1>0, <1>2, <2>1, <2>2, <2>3, FlightGoesOn
<1>10. CASE GiveUp
  <2>1. flight' \in FlightRecord /\ flight'.of = flight.of /\ flight'.stage = "failed"
    BY <1>10, FlightEdits DEF GiveUp, Fails
  <2>2. Onward /\ checks' = Abandoned /\ tab' = tab
    BY <1>1, <1>10 DEF GiveUp, durable
  <2> QED
    BY <1>0, <1>3, <2>1, <2>2, FlightGoesOn
<1> QED
  BY <1>4, <1>5, <1>6, <1>7, <1>8, <1>9, <1>10

\* A hang-up, a takeover and a restart leave the tab on nothing it is not sure of.
LEMMA EndingKeeps == ASSUME CInv, CInv', TabInv, Hangup \/ OtherTab \/ Crash PROVE TabInv'
<1>0. /\ tab \in TabRecord /\ flight \in FlightRecord /\ Calm(tab, tab)
      /\ NoFlight \in FlightRecord /\ NoFlight.stage = "none" /\ NoFlight.of = 0
  BY CalmEvents, FlightEdits DEF TabInv, TabTypes
<1>1. CASE Hangup
  <2>1. Calm(tab, tab') /\ tab'.state = "ended" /\ flight' = NoFlight /\ grant' = grant /\ checks' = Abandoned
    BY <1>0, <1>1, CalmEvents DEF Hangup, EndCall, Unless, TabRecord
  <2>2. Onward
    BY <1>1, SameIsGentle, CommandOnward DEF Hangup, Delivered, Gentle
  <2>3. OldChecks /\ \A d \in checks' : ~d.waited
    BY <2>1, AbandonedOld
  <2>4. \A g \in Segments : HasMedia /\ HasMedia' /\ grant = g => Sure(g)'
    BY <2>1 DEF HasMedia
  <2> QED
    BY <1>0, <2>1, <2>2, <2>3, <2>4, GoesOn
<1>2. CASE Crash
  <2>1. Gentle /\ checks' = {} /\ UNCHANGED <<tab, grant>>
    BY <1>2, RestartIsGentle DEF Crash
  <2>2. CASE flight.stage \in {"waiting", "replied"}
    <3>1. Fails(FALSE) /\ Flying
      BY <1>2, <2>2 DEF Crash, Fails, Flying
    <3> QED
      BY <2>1, <3>1, FailsKeeps
  <2>3. CASE flight.stage \notin {"waiting", "replied"}
    <3>1. flight' = flight
      BY <1>2, <2>3 DEF Crash
    <3> QED
      BY <2>1, <3>1, FailsKeeps
  <2> QED
    BY <2>2, <2>3
<1>3. CASE OtherTab
  <2> DEFINE e == call.epoch + 1
             t == [Idle EXCEPT !.state = "paused", !.holds = {"waiting"}, !.needsRecovery = TRUE, !.epoch = e]
  <2>1. e \in Nat /\ call.provider \in 0..MaxSegments /\ \A s \in Segments : s # 0
    BY SMTT(30), CallAssumption DEF CInv, Controlled, ControlTypes, Lifecycle, TabInv, TabTypes, Segments
  <2>2. TakeOver /\ tab' = t /\ grant' = call.provider /\ flight' = NoFlight /\ checks' = Abandoned
    BY <1>3 DEF OtherTab
  <2> HIDE DEF e
  <2>3. t \in TabRecord /\ t.provider = 0
    BY <2>1 DEF Idle, TabRecord, States, Reasons
  <2> HIDE DEF t
  <2>4. Onward /\ \A s \in Segments : Live(s) => ~Live(s)'
    BY <2>2, TakeOverOnward
  <2>5. call'.provider \in 0..MaxSegments
    BY <2>1, <2>4, CallAssumption DEF Onward, Segments
  <2>6. TabTypes'
    BY <1>0, <2>1, <2>2, <2>3, <2>5 DEF TabTypes, Joined, Flying
  <2>7. \A s \in Segments : ~On(s)'
    BY <1>0, <2>2, <2>3 DEF On, HasMedia, Joined
  <2>8. Behind'
    BY <1>0, <2>1, <2>2, <2>4, <2>7 DEF TabInv, Behind, Onward
  <2>9. OldChecks /\ \A d \in checks' : ~d.waited
    BY <2>2, AbandonedOld
  <2>10. \A d \in checks' : ~Live(d.seg)'
    <3> SUFFICES ASSUME NEW d \in checks', NEW c \in checks, d.seg = c.seg, Live(d.seg)' PROVE FALSE
      BY <2>9 DEF OldChecks
    <3> DEFINE s == c.seg
    <3>1. s \in Segments /\ seg[s].stage \in {"live", "gone"} /\ Live(s)'
      BY DEF CInv, Controlled, ControlTypes
    <3> HIDE DEF s
    <3>2. seg[s].stage # "none"
      BY <3>1
    <3>3. Live(s)
      BY <2>4, <3>1, <3>2, OnwardFacts
    <3> QED
      BY <2>4, <3>1, <3>3
  <2>11. Asked'
    BY <2>9, <2>10 DEF Asked
  <2>12. Replaced'
    BY <1>0, <2>2 DEF Replaced, Flying
  <2> QED
    BY <2>6, <2>7, <2>8, <2>11, <2>12 DEF TabInv, Followed
<1> QED
  BY <1>1, <1>2, <1>3

\* At first no tab is on anything.
LEMMA InitTabInv == Init => TabInv
<1> SUFFICES ASSUME Init PROVE TabInv
  OBVIOUS
<1>1. 0 \in 0..MaxSegments /\ \A s \in Segments : s # 0
  BY CallAssumption DEF Segments
<1>2. NoFlight \in FlightRecord /\ NoFlight.stage = "none" /\ NoFlight.of = 0
  BY <1>1 DEF NoFlight, FlightRecord
<1>3. Idle \in TabRecord /\ Idle.provider = 0
  BY DEF Idle, TabRecord, States
<1>4. /\ tab = Idle /\ call = Idle /\ grant = 0 /\ flight = NoFlight /\ checks = {}
  BY DEF Init, CallsInit
<1>5. \A s \in Segments : ~On(s)
  BY <1>2, <1>3, <1>4 DEF On, HasMedia, Joined
<1> QED
  BY <1>1, <1>2, <1>3, <1>4, <1>5 DEF TabInv, TabTypes, Behind, Asked, Replaced, Followed, Joined, Flying

\* Every step keeps what the tab is sure of.
LEMMA StepTabInv == CInv /\ CInv' /\ TabInv /\ [Next]_vars => TabInv'
<1> SUFFICES ASSUME CInv, CInv', TabInv, [Next]_vars PROVE TabInv'
  OBVIOUS
<1>1. ASSUME NEW s \in Segments,
             FirstCall(s) \/ StartStep(s) \/ (\E confirmed, fatal \in BOOLEAN : StartRefused(s, confirmed, fatal))
               \/ CloseStep(s) \/ Unconfirmed(s) \/ Expire(s)
      PROVE  TabInv'
  BY <1>1, DepartureKeeps, StartStepKeeps, StartRefusedKeeps, QuietKeeps, ExpireKeeps
<1>2. ASSUME NEW c \in checks, CheckStep(c) \/ CheckRefused(c) PROVE TabInv'
  BY <1>2, CheckStepStays
<1>3. CASE FlightStep \/ AskLost \/ MediaFails \/ GiveUp
  BY <1>3, FlightStepKeeps, AskKeeps, ReceiptKeeps DEF FlightStep
<1>4. CASE \/ Drop \/ Retry \/ LeaseLapses \/ GoToSleep \/ WakeUp \/ HearRestart
           \/ Pause \/ Unpause \/ Acknowledge \/ ResumeLost
           \/ ResumeStep \/ PauseRefused \/ TextPause \/ NewConsent
  BY <1>4, DepartureKeeps, QuietKeeps
<1>5. CASE Hangup \/ OtherTab \/ Crash
  BY <1>5, EndingKeeps
<1>6. CASE UNCHANGED vars
  <2>1. Gentle /\ UNCHANGED <<checks, tab, grant, flight>> /\ Calm(tab, tab)
    BY <1>6, SameIsGentle, CalmEvents DEF vars, serverVars, durable, process, tabVars, TabInv, TabTypes
  <2> QED
    BY <2>1, GentleKeeps
<1> QED
  BY <1>1, <1>2, <1>3, <1>4, <1>5, <1>6 DEF Next

-----------------------------------------------------------------------------
(* The theorems *)

\* However starts, closes, checks, takeovers and restarts interleave, at most one
\* segment is live and not being closed, of the tab and under the consent that
\* control the call (voice-handlers.js start, recover, close).
THEOREM OneSegmentLives == Spec => []OneLiveSegment
<1>1. CInv => OneLiveSegment
  BY DEF CInv, Controlled, OneLiveSegment, Runs, Live
<1> QED
  BY <1>1, CInvAlways, PTL

\* The deployment's minutes stay reserved for every segment a provider may be
\* running, and bound them all (voice-cap.js, budget recovery at startup).
THEOREM MinutesReserved == Spec => []OpenSegmentsReserved
<1>1. CInv => OpenSegmentsReserved
  <2> SUFFICES ASSUME CInv PROVE OpenSegmentsReserved
    OBVIOUS
  <2> DEFINE running == {s \in Segments : provider[s] = "open"}
  <2>1. \A s \in Segments : provider[s] = "open" => hold[s] \in {"sent", "kept"}
    BY DEF CInv, HeldFor, HoldOf
  <2>2. running \in SUBSET Reserved
    BY <2>1 DEF Reserved
  <2>3. Cardinality(running) <= Cardinality(Reserved) /\ Cardinality(Reserved) \in Nat /\ Cardinality(running) \in Nat
    BY <2>2, ReservedFinite, FS_Subset, FS_CardinalityType
  <2> QED
    BY <2>1, <2>3, CallAssumption DEF CInv, HeldFor, OpenSegmentsReserved
<1> QED
  BY <1>1, CInvAlways, PTL

\* A tab that has its media back is on the segment the server uses: no other
\* segment of the call is live behind it (client.js, voice-handlers.js recover).
THEOREM TabStaysOnSegment == Spec => []TabFollows
<1>1. CInv /\ TabInv => TabFollows
  <2> SUFFICES ASSUME CInv, TabInv, HasMedia, NEW s \in Segments, Live(s) PROVE s = grant
    BY DEF TabFollows
  <2>1. grant \in Segments /\ On(grant)
    BY CallAssumption DEF TabInv, TabTypes, HasMedia, On, Segments
  <2>2. Sure(grant)
    BY <2>1 DEF TabInv, Followed
  <2> QED
    BY <2>1, <2>2, SureAlone
<1> QED
  BY <1>1, InitTabInv, StepTabInv, CInvAlways, PTL DEF Spec
=============================================================================
