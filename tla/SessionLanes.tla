---------------------------- MODULE SessionLanes ----------------------------
(***************************************************************************)
(* The reply and assessment lanes of one conversation: SessionLanes of     *)
(* packages/core/src/lanes.js, the admission gate of plugin-runtime.js     *)
(* each of its calls passes, and the session revisions both compare.       *)
(*                                                                         *)
(* A run of a lane is a flight.  It takes a snapshot of the session, and   *)
(* between its awaits the visitor may post, upload, withdraw, revoke,      *)
(* verify, pause or choose another model.  The module says nothing of who  *)
(* calls run: any caller may, at any time.  LaneJobs adds the server's     *)
(* scheduler.                                                              *)
(*                                                                         *)
(* Scope: no voice call, no purpose policy and no question focus; a host   *)
(* that passes admit, as the server does.                                  *)
(***************************************************************************)
EXTENDS Integers, FiniteSets

CONSTANTS Flights,          \* names for runs of a lane, reused once over
          NoFlight,         \* an empty entry of the #flights map
          Selections,       \* the processing choices of the session
          NoSelection,      \* the choice of a name that is not in use
          HasDraft,         \* draftReasoning is a binding of its own
          AnonymousTurns,   \* preset.anonymousTurns
          MaxEvents         \* bound on the events a behaviour may take

ASSUME LanesAssumption ==
  /\ NoFlight \notin Flights
  /\ HasDraft \in BOOLEAN
  /\ AnonymousTurns \in Nat /\ MaxEvents \in Nat

VARIABLES session,   \* the stored session
          flights,   \* every run of a lane
          slot,      \* #flights: which run owns a lane
          events     \* session events so far

laneVars == <<session, flights, slot, events>>

Lanes == {"reaction", "understanding"}
Stages == {"idle", "admitting", "consenting", "called", "ended"}

-----------------------------------------------------------------------------
(* Revisions *)

NoRevision == <<-1, -1, -1>>

\* gate stands for the consent and withdrawal revisions, which only rise.
InputRev(s) == <<s.input, s.gate, s.ident>>

\* replyInputRevision takes the identity changes out of the revision.
ReplyOf(rev) == <<rev[1], rev[2]>>
ReplyRev(s) == ReplyOf(InputRev(s))

\* A lane's work already stands for the present input.
Settled(s, lane) ==
  IF lane = "reaction" THEN s.answered = InputRev(s)
  ELSE s.und.rev = InputRev(s) /\ ~s.und.draft

Deferred(s, lane) ==
  \/ s.active = 0
  \/ lane = "understanding" /\ ~s.verified /\ s.active < AnonymousTurns

\* Otherwise a run returns at once: blocked, deferred or cached.
Due(s, lane) == ~s.barred /\ ~Deferred(s, lane) /\ ~Settled(s, lane)

EmptyUnderstanding == [rev |-> NoRevision, draft |-> FALSE]

\* What a run of a lane remembers, before it is called.
Idle ==
  [at |-> "idle", lane |-> "reaction", seen |-> NoRevision, asked |-> NoRevision,
   sel |-> NoSelection, draft |-> FALSE, retried |-> FALSE,
   shown |-> FALSE, signal |-> "on", failed |-> FALSE]

LanesInit ==
  /\ \E c \in Selections :
       session = [input |-> 0, gate |-> 0, ident |-> 0, active |-> 0,
                  verified |-> FALSE, barred |-> FALSE, paused |-> FALSE,
                  sel |-> c, answered |-> NoRevision, und |-> EmptyUnderstanding]
  /\ flights = [f \in Flights |-> Idle]
  /\ slot = [l \in Lanes |-> NoFlight]
  /\ events = 0

-----------------------------------------------------------------------------
(* Flights *)

Live(f) == flights[f].at # "idle"
Owner(f) == slot[flights[f].lane] = f

\* The run's own controller, which the deadline of its scope does not abort.
Aborted(f) == flights[f].signal = "aborted"
Stopped(f) == flights[f].signal # "on"

\* Seeded fault: with identity, the exemption of a reply leaves the turns out too.
SameInputGate(lane, rev, s) ==
  rev = InputRev(s) \/ (lane = "reaction" /\ rev[2] = s.gate)

\* The revision a flight compares, which for a reply leaves identity out.
SameInput(lane, rev, s) ==
  \/ rev = InputRev(s)
  \/ lane = "reaction" /\ ReplyOf(rev) = ReplyRev(s)

Current(f) ==
  /\ ~Stopped(f)
  /\ SameInput(flights[f].lane, flights[f].seen, session)
  /\ flights[f].sel = session.sel

\* Seeded fault: the gate does not compare the revision.
UnchangedChoice(f) ==
  ~session.barred /\ ~session.paused /\ flights[f].sel = session.sel

\* The gate of an admitted call compares the session it was admitted with.
Unchanged(f) ==
  /\ ~session.barred /\ ~session.paused
  /\ flights[f].asked = InputRev(session)
  /\ flights[f].sel = session.sel

\* run joins the lane's live run when it has the same choice, and otherwise
\* aborts it and takes the lane over.
Joins(lane) ==
  /\ slot[lane] # NoFlight
  /\ ~Aborted(slot[lane])
  /\ flights[slot[lane]].sel = session.sel

AbortAll(fs) ==
  [f \in Flights |-> IF f \in fs THEN [flights[f] EXCEPT !.signal = "aborted"] ELSE flights[f]]

Spare == {f \in Flights : ~Live(f)}

\* What a run does first, before its first await: nothing, or ask for admission.
\* No timer and no request falls between its microtasks.
Launched(lane) ==
  LET run == [Idle EXCEPT !.lane = lane, !.seen = InputRev(session), !.sel = session.sel]
      wantsDraft == lane = "understanding" /\ HasDraft
  IN  IF ~Due(session, lane) \/ session.paused THEN [run EXCEPT !.at = "ended"]
      ELSE [run EXCEPT !.at = "admitting", !.asked = InputRev(session),
              !.draft = wantsDraft /\ session.und # [rev |-> InputRev(session), draft |-> TRUE]]

Launch(lane, f) ==
  /\ ~Joins(lane)
  /\ f \in Spare
  /\ flights' = [AbortAll({slot[lane]}) EXCEPT ![f] = Launched(lane)]
  /\ slot' = [slot EXCEPT ![lane] = f]
  /\ UNCHANGED <<session, events>>

\* A run settles with one of its results or with an error.
Ended(f, failed) ==
  flights' = [flights EXCEPT ![f] =
    [Idle EXCEPT !.at = "ended", !.lane = flights[f].lane, !.seen = flights[f].seen,
       !.sel = flights[f].sel, !.signal = flights[f].signal, !.failed = failed]]

Returns(f) == Ended(f, FALSE)
Fails(f) == Ended(f, TRUE)

\* Availability, price and budget.  An abort ends the evaluation with a refusal,
\* but not the wait for the owner's wallet.
Admit(f) ==
  /\ flights[f].at = "admitting"
  /\ Unchanged(f)
  /\ flights' = [flights EXCEPT ![f].at = "consenting"]
  /\ UNCHANGED <<session, slot, events>>

\* Seeded fault: the claim is consumed without a look at the abort signal.
ConsumableUnchanged(f) == Unchanged(f)

Consumable(f) == Unchanged(f) /\ ~Stopped(f)

\* The provider consumes its claim: fresh coverage, and the gate once more.
Dispatch(f) ==
  /\ flights[f].at = "consenting"
  /\ Consumable(f)
  /\ flights' = [flights EXCEPT ![f].at = "called"]
  /\ UNCHANGED <<session, slot, events>>

\* A refusal by the gate, the consent port, the budget or the provider.
Refuse(f) ==
  /\ flights[f].at \in {"admitting", "consenting", "called"}
  /\ Fails(f)
  /\ UNCHANGED <<session, slot, events>>

\* A fragment of the reply reaches the visitor.
Show(f) ==
  /\ flights[f].at = "called" /\ flights[f].lane = "reaction" /\ ~flights[f].shown
  /\ Current(f)
  /\ flights' = [flights EXCEPT ![f].shown = TRUE]
  /\ UNCHANGED <<session, slot, events>>

\* The assessment is tried once more without a response format.
Compatibility(f) ==
  /\ flights[f].at = "called" /\ flights[f].lane = "understanding"
  /\ ~flights[f].retried /\ Current(f)
  /\ IF session.paused THEN Fails(f)
     ELSE flights' = [flights EXCEPT ![f].at = "admitting", ![f].retried = TRUE,
                                     ![f].asked = InputRev(session)]
  /\ UNCHANGED <<session, slot, events>>

\* The provider is done, and its receipt settled, before an abort could reject
\* the wait.  The result is stored if it is still wanted; a reply carries the
\* revision it is stored under, not the one it began with.  Whatever makes a
\* reply stale has aborted it too, so that it ends by Refuse.
PublishReply(f) ==
  /\ flights[f].at = "called" /\ flights[f].lane = "reaction" /\ ~Stopped(f)
  /\ Current(f)
  /\ session' = [session EXCEPT !.answered = InputRev(session)]
  /\ Returns(f)
  /\ UNCHANGED <<slot, events>>

PublishUnderstanding(f) ==
  /\ flights[f].at = "called" /\ flights[f].lane = "understanding" /\ ~Stopped(f)
  /\ IF ~Current(f) THEN Returns(f) /\ UNCHANGED session
     ELSE /\ session' = [session EXCEPT !.und =
               [rev |-> flights[f].seen, draft |-> flights[f].draft]]
          /\ IF ~flights[f].draft \/ session.paused THEN Returns(f)
             ELSE flights' = [flights EXCEPT ![f].at = "admitting", ![f].draft = FALSE,
                    ![f].retried = FALSE, ![f].asked = InputRev(session)]
  /\ UNCHANGED <<slot, events>>

\* The deadline of the run's scope.
Expire(f) ==
  /\ flights[f].at \notin {"idle", "ended"} /\ ~Stopped(f)
  /\ flights' = [flights EXCEPT ![f].signal = "expired"]
  /\ UNCHANGED <<session, slot, events>>

\* Seeded fault: whoever settles empties the entry of its lane.
SlotLeftAlways(f) == [slot EXCEPT ![flights[f].lane] = NoFlight]

SlotLeft(f) == IF Owner(f) THEN [slot EXCEPT ![flights[f].lane] = NoFlight] ELSE slot

\* The promise settles: a run gives back only a lane that is still its own.
End(f) ==
  /\ flights[f].at = "ended"
  /\ flights' = [flights EXCEPT ![f] = Idle]
  /\ slot' = SlotLeft(f)
  /\ UNCHANGED <<session, events>>

FlightStep(f) ==
  \/ Admit(f) \/ Dispatch(f) \/ Refuse(f) \/ Show(f) \/ Compatibility(f)
  \/ PublishReply(f) \/ PublishUnderstanding(f) \/ Expire(f)

-----------------------------------------------------------------------------
(* Session events, each with the lane call its handler makes at once *)

Event == events < MaxEvents /\ events' = events + 1

Outdated(f, s) ==
  \/ ~SameInput(flights[f].lane, flights[f].seen, s)
  \/ flights[f].sel # s.sel

\* supersede and cancel reach the runs that own a lane.
Supersede(s) ==
  flights' = AbortAll({f \in Flights : Live(f) /\ Owner(f) /\ Outdated(f, s)})

\* Seeded fault: runs that a change of settings aborted before are not waited for.
CancelledUnaborted == {f \in Flights : Live(f) /\ Owner(f) /\ ~Aborted(f)}

Cancelled == {f \in Flights : Live(f) /\ Owner(f)}
Cancel == flights' = AbortAll(Cancelled)

\* A typed turn keeps the assessment as it was; an upload empties it.
AddInput(upload) ==
  LET s == [session EXCEPT !.input = @ + 1, !.active = @ + 1,
              !.und = IF upload THEN EmptyUnderstanding ELSE @]
  IN  /\ Event
      /\ session' = s /\ Supersede(s)
      /\ UNCHANGED slot

Withdrawable == session.active > 0

\* Withdrawal or expiry of a turn or an upload.
WithdrawInput ==
  /\ Event /\ Withdrawable
  /\ session' = [session EXCEPT !.active = @ - 1, !.gate = @ + 1,
                                !.und = EmptyUnderstanding]
  /\ Cancel
  /\ UNCHANGED slot

\* Consent withdrawn or granted anew; an erasure is a withdrawal for good.
ReviseConsent(granted) ==
  /\ Event
  /\ session' = [session EXCEPT !.barred = ~granted, !.gate = @ + 1,
                                !.und = EmptyUnderstanding]
  /\ Cancel
  /\ UNCHANGED slot

Verify ==
  LET s == [session EXCEPT !.verified = TRUE, !.ident = @ + 1]
  IN  /\ Event /\ ~session.verified
      /\ session' = s /\ Supersede(s)
      /\ UNCHANGED slot

\* Nothing tells the lanes that an address changed.
ChangeAddress ==
  /\ Event /\ session.verified
  /\ session' = [session EXCEPT !.verified = FALSE, !.ident = @ + 1]
  /\ UNCHANGED <<flights, slot>>

ChangeSettings(c) ==
  LET s == [session EXCEPT !.sel = c]
  IN  /\ Event /\ c # session.sel
      /\ session' = s /\ Supersede(s)
      /\ UNCHANGED slot

SetPaused(p) ==
  /\ Event /\ session.paused # p
  /\ session' = [session EXCEPT !.paused = p]
  /\ UNCHANGED <<flights, slot>>

SessionEvent ==
  \/ \E upload \in BOOLEAN : AddInput(upload)
  \/ WithdrawInput
  \/ \E granted \in BOOLEAN : ReviseConsent(granted)
  \/ Verify
  \/ ChangeAddress
  \/ \E c \in Selections : ChangeSettings(c)
  \/ \E p \in BOOLEAN : SetPaused(p)

LanesNext ==
  \/ \E lane \in Lanes, f \in Flights : Launch(lane, f)
  \/ \E f \in Flights : FlightStep(f) \/ End(f)
  \/ SessionEvent

LanesSpec == LanesInit /\ [][LanesNext]_laneVars

-----------------------------------------------------------------------------
(* Properties *)

Revision == (Nat \cup {-1}) \X (Nat \cup {-1}) \X (Nat \cup {-1})

FlightRecord ==
  [at : Stages, lane : Lanes, seen : Revision, asked : Revision, sel : Selections \cup {NoSelection},
   draft : BOOLEAN, retried : BOOLEAN, shown : BOOLEAN,
   signal : {"on", "expired", "aborted"}, failed : BOOLEAN]

SessionRecord ==
  [input : Nat, gate : Nat, ident : Nat, active : Nat,
   verified : BOOLEAN, barred : BOOLEAN, paused : BOOLEAN, sel : Selections,
   answered : Revision, und : [rev : Revision, draft : BOOLEAN]]

LanesTypeOK ==
  /\ session \in SessionRecord
  /\ flights \in [Flights -> FlightRecord]
  /\ slot \in [Lanes -> Flights \cup {NoFlight}]
  /\ events \in Nat

\* A lane never has two runs that are both still wanted, although an aborted
\* run may outlive its successor's start and end after it.
SingleFlight ==
  \A f, g \in Flights :
    /\ Live(f) /\ Live(g)
    /\ flights[f].lane = flights[g].lane
    /\ ~Aborted(f) /\ ~Aborted(g)
    => f = g

Dispatched(f) == flights[f].at # "called" /\ flights'[f].at = "called"

\* No provider is paid for an answer or a final assessment that the session
\* already has, whichever runs were displaced, revived or late.
AnsweredOnce ==
  [][\A f \in Flights : Dispatched(f) => ~Settled(session, flights[f].lane)]_laneVars

\* A paid call is made with exactly the input, and under the choice, that the
\* visitor has now: never with withdrawn turns or after a change of model.
DispatchOwnsInput ==
  [][\A f \in Flights : Dispatched(f) =>
       /\ ReplyOf(flights[f].seen) = ReplyRev(session)
       /\ flights[f].lane = "understanding" => flights[f].seen = InputRev(session)
       /\ flights[f].sel = session.sel /\ ~session.barred /\ ~session.paused]_laneVars

Shown(f) == ~flights[f].shown /\ flights'[f].shown

Stored(f) == flights[f].at = "called" /\ flights'[f].at # "called" /\ session' # session

\* What the visitor is shown and what is stored comes from the turns that stand
\* now: a reply that began before a withdrawal, a consent revision or a newer
\* turn is neither streamed nor kept, even if its label would be accepted.
NothingStale ==
  [][\A f \in Flights :
       Shown(f) \/ Stored(f)
       => ReplyOf(flights[f].seen) = ReplyRev(session) /\ ~session.barred]_laneVars
=============================================================================
