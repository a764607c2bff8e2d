------------------------------ MODULE Concepts ------------------------------
(***************************************************************************)
(* The concept lane of one conversation: the durable intent               *)
(* (packages/core/src/concept-intent.js), the single flight that renders   *)
(* it (concept-lane.js), its handlers (packages/server/src/                *)
(* concept-handlers.js), the gate that admits and dispatches the paid      *)
(* render (plugin-runtime.js admit, credits.js, ui-render-limits.js,       *)
(* conversation-limits.js) and the artifacts it leaves (storage.js).       *)
(*                                                                         *)
(* A render awaits the host's availability checks, the owner's wallet, the *)
(* consent port, the provider and the publication gate; between any two of *)
(* these the person may speak, withdraw, remove a reference, revise        *)
(* consent, pause, vote or change the visuals, the hour may end, other     *)
(* conversations may use up the day, and the process may stop.             *)
(*                                                                         *)
(* Scope: images (which carry host references), a session whose owner has  *)
(* a wallet, a binding with a consent scope.  The answers of the ports are *)
(* arbitrary.                                                              *)
(***************************************************************************)
EXTENDS Naturals, FiniteSets, Sequences

CONSTANTS MaxTurns,      \* bound on the person's turns
          Refs,          \* reference images the host may offer
          MaxJobs,       \* bound on the renders requested
          RefreshTurns,  \* policy.refreshTurns
          Levels,        \* milestones an assessment may reach: 1 early, 2 midpoint, 3 late
          PerSession,    \* AITHEMA_UI_RENDERS_PER_SESSION
          PerDay,        \* AITHEMA_UI_RENDERS_PER_DAY
          MaxEvents      \* bound on what the person, the host and others do

ASSUME ConceptsAssumption ==
  /\ {MaxTurns, MaxJobs, RefreshTurns, PerSession, PerDay, MaxEvents} \subseteq Nat
  /\ Levels \subseteq Nat
  /\ Refs \cap Nat = {}

VARIABLES
  session,    \* the recorded conversation: turns, consent, pause, choice, assessment
  offered,    \* the references the host offers now
  removals,   \* how often removeConceptReference took a reference away
  concepts,   \* concept_artifacts, in the order they were stored
  intent,     \* session.conceptIntent
  flight,     \* ConceptLane's flight of this session
  row,        \* budget_attempts of the renders
  hold,       \* the owner wallet's reservations
  claims,     \* ui_render_claims of this session: the day of each
  today, others,  \* the UTC day, and the renders other sessions claimed in it
  hour,       \* the conversation's hour: status of the credits, and the clock
  events      \* what the person, the host and other sessions have done so far

accounts == <<row, hold, claims, today, others>>
visit == <<session, offered, removals, hour, events>>
vars == <<visit, accounts, concepts, intent, flight>>

\* Turns and concepts have names of their own; a concept is called after its job.
Turns == 1..MaxTurns
Jobs == (MaxTurns + 1)..(MaxTurns + MaxJobs)
Sources == Turns \cup Jobs \cup Refs
JobsSoFar(i) == {j \in Jobs : j <= MaxTurns + Cardinality(i.attempted)}

NoWish == [id |-> 0, turn |-> 0]
NoJob == [id |-> 0]
NoFlight == [stage |-> "none"]

-----------------------------------------------------------------------------
(* The session *)

Active(s) == (1..s.turns) \ s.withdrawn

InputRev(s) == <<s.turns, s.conversation, Cardinality(s.withdrawn)>>

Open == hour = [status |-> "active", late |-> FALSE]

\* assertOpen also writes down that the hour is over.
Closing == IF hour.late THEN [hour EXCEPT !.status = "ended"] ELSE hour

\* The concept of C that was stored last.
Last(cs, C) == {cs[c].id : c \in {c \in C : \A d \in C : d <= c}}

\* The identities a render starts from: the concept liked last, or else the
\* last one, the one archived last, and what the host offers.
Chosen(cs, refs) ==
  LET there == {c \in DOMAIN cs : ~cs[c].erased}
      kept == {c \in there : ~cs[c].archived}
      liked == {c \in kept : cs[c].liked}
  IN refs \cup Last(cs, there \ kept) \cup Last(cs, IF liked = {} THEN kept ELSE liked)

-----------------------------------------------------------------------------
(* The intent: reduceConceptIntent and syncConceptIntent *)

\* next has lost sources of i: each loses its version, and a wish its turn.
Invalidated(i, next) ==
  LET lost == i.sources \ next.sources
  IN [next EXCEPT !.wish = IF @.turn \in next.sources THEN @ ELSE NoWish,
                  !.versions = [k \in Sources |-> IF k \in lost THEN @[k] + 1 ELSE @[k]]]

SourceRemoved(i, k) == Invalidated(i, [i EXCEPT !.sources = @ \ {k}])

ConsentRevised(i, covered, rev) ==
  LET changed == covered # i.consented
  IN [i EXCEPT !.consented = covered, !.consent = rev, !.model = 0,
               !.wish = IF changed THEN NoWish ELSE @,
               !.invalidation = IF changed THEN @ + 1 ELSE @]

ConversationEnded(i) == [i EXCEPT !.eligible = FALSE, !.model = 0]

IntentRecorded(i, id, t) ==
  IF i.consented /\ t \in i.sources THEN [i EXCEPT !.wish = [id |-> id, turn |-> t]] ELSE i

PersonTurn(i, t) ==
  IF i.consented /\ t \in i.sources THEN [i EXCEPT !.model = t, !.eligible = TRUE] ELSE i

\* The stored intent brought up to the session and the references of today.
Synced(i, s, cs, refs) ==
  LET consented == IF i.consented = s.revoked \/ i.consent # s.consent
                   THEN ConsentRevised(i, ~s.revoked, s.consent) ELSE i
      rev == <<InputRev(s), s.consent, consented.wish.id>>
      sources == Active(s) \cup Chosen(cs, refs)
      recorded == Invalidated(consented, [consented EXCEPT !.rev = rev, !.sources = sources])
  IN [recorded EXCEPT !.paused = s.paused,
                      !.armed = IF s.assessed.rev = InputRev(s) THEN s.assessed.level ELSE 0]

\* planConceptIntent: a render is due. Only new words, references or wishes earn one.
Due(i, trigger) ==
  LET first == i.last = NoJob
      fresh == IF first THEN {} ELSE i.sources \ i.last.sources
      newTurns == Cardinality(fresh \cap Turns)
      newRefs == fresh \cap Refs # {}
      newWish == ~first /\ i.wish.id # i.last.wish
  IN /\ i.wish # NoWish /\ i.consented /\ ~i.paused /\ i.eligible /\ i.pending = NoJob
     /\ i.sources \cap Turns # {} /\ i.rev \notin i.attempted
     /\ \/ trigger = "manual" /\ (first \/ newWish)
        \/ /\ trigger = "progress" /\ i.armed # 0
           /\ \/ first
              \/ newRefs
              \/ newTurns >= 1 /\ (newWish \/ i.armed > i.last.milestone)
              \/ newTurns >= 1 /\ newTurns >= RefreshTurns

\* seen is no field of the code: which copy of each reference the job is about.
Job(i) == [id |-> MaxTurns + Cardinality(i.attempted) + 1, rev |-> i.rev, sources |-> i.sources,
           wish |-> i.wish.id, milestone |-> i.armed, invalidation |-> i.invalidation,
           versions |-> i.versions, seen |-> removals]

Requested(i) == [i EXCEPT !.pending = Job(i), !.last = Job(i), !.attempted = @ \cup {i.rev}]

\* Seeded fault: only the conversation and its consent are compared.
StandsOnTurns(i, job) ==
  i.consented /\ i.invalidation = job.invalidation /\ job.sources \cap Turns \subseteq i.sources

\* conceptResultDisposition: nothing the job was made of has gone since.
Stands(i, job) ==
  /\ i.consented /\ i.invalidation = job.invalidation
  /\ \A k \in job.sources : i.versions[k] = job.versions[k]
  /\ job.sources \subseteq i.sources

-----------------------------------------------------------------------------
(* The lane *)

Idle == flight = NoFlight

Takeoff(i, s) ==
  [stage |-> "planned", job |-> i.pending, input |-> InputRev(s), choice |-> s.choice,
   consent |-> s.consent, aborted |-> FALSE, again |-> FALSE, read |-> 0]

\* ConceptLane.run over a session and stored intent while nothing flies.
Run(i, s, cs, refs, trigger) ==
  LET synced == Synced(i, s, cs, refs)
      starts == Due(synced, trigger) /\ JobsSoFar(synced) # Jobs
      stored == IF synced.wish # NoWish \/ synced.last # NoJob THEN synced ELSE i
  IN /\ intent' = IF starts THEN Requested(synced) ELSE stored
     /\ flight' = IF starts THEN Takeoff(Requested(synced), s) ELSE NoFlight

\* A run during a flight is that flight.
Schedule(i, s, cs, refs, trigger) ==
  IF Idle THEN Run(i, s, cs, refs, trigger) ELSE intent' = i /\ UNCHANGED flight

Unadmitted == flight.stage \in {"planned", "evaluating", "wallet", "returning"}

\* ConceptLane.invalidate: a flight whose sources have gone is aborted, and
\* so is one not yet admitted when consent was revised. What an admitted one
\* meets when it asks the consent port again is Abort.
Warned(i, s, cs, refs) ==
  IF Idle THEN flight
  ELSE [flight EXCEPT !.aborted = \/ @
                                  \/ ~Stands(Synced(i, s, cs, refs), flight.job)
                                  \/ Unadmitted /\ s.consent # flight.consent]

Happens == events < MaxEvents /\ events' = events + 1

-----------------------------------------------------------------------------
(* What the person and the host do *)

RecordTurn ==
  LET s == [session EXCEPT !.turns = @ + 1]
      i == PersonTurn(Synced(intent, s, concepts, offered), s.turns)
  IN /\ Happens /\ Open /\ session.turns < MaxTurns
     /\ session' = s
     /\ IF s.revoked THEN UNCHANGED <<intent, flight>>
        ELSE Schedule(i, s, concepts, offered, "progress")
     /\ UNCHANGED <<accounts, concepts, offered, removals, hour>>

\* An assessment of the present input; the model may have heard a wish in the
\* turn it was asked about.
Understood(level, heard) ==
  LET s == [session EXCEPT !.assessed = [rev |-> InputRev(session), level |-> level]]
      t == IF Active(s) = {} THEN 0 ELSE CHOOSE t \in Active(s) : \A u \in Active(s) : u <= t
      consumed == IF t # 0 /\ intent.model = t THEN [intent EXCEPT !.model = 0] ELSE intent
      wished == Synced(IntentRecorded(Synced(consumed, s, concepts, offered), t, t), s, concepts, offered)
      hears == heard /\ t # 0 /\ intent.model = t
  IN /\ Happens /\ ~session.revoked /\ session.assessed.rev # InputRev(session)
     /\ heard => hears
     /\ session' = s
     /\ Schedule(IF hears THEN wished ELSE consumed, s, concepts, offered, "progress")
     /\ UNCHANGED <<accounts, concepts, offered, removals, hour>>

\* POST concepts: the person asks for a concept, or for another one.
Ask(t) ==
  LET i == [Synced(intent, session, concepts, offered) EXCEPT !.eligible = TRUE]
      wished == Synced(IntentRecorded(i, MaxTurns + 1 + events, t), session, concepts, offered)
      again == intent.last # NoJob \/ \E c \in DOMAIN concepts : ~concepts[c].erased
  IN /\ Happens /\ ~session.revoked /\ t \in Active(session) /\ intent.pending = NoJob
     /\ Schedule(wished, session, concepts, offered, IF again THEN "manual" ELSE "progress")
     /\ UNCHANGED <<accounts, concepts, session, offered, removals, hour>>

Resting(k) == {c \in DOMAIN concepts : k \in concepts[c].deps}

Erase(C) ==
  concepts' = [c \in DOMAIN concepts |->
                 IF c \in C THEN [concepts[c] EXCEPT !.erased = TRUE] ELSE concepts[c]]

Withdraw(t, expired) ==
  LET s == [session EXCEPT !.withdrawn = @ \cup {t}]
      i == SourceRemoved(intent, t)
      cleared == IF i.pending # NoJob /\ t \in i.pending.sources THEN [i EXCEPT !.pending = NoJob] ELSE i
  IN /\ Happens /\ t \in Active(session)
     /\ session' = s
     /\ Erase(Resting(t))
     /\ intent' = IF expired THEN ConversationEnded(cleared) ELSE cleared
     /\ flight' = Warned(intent', s, concepts', offered)
     /\ UNCHANGED <<accounts, offered, removals, hour>>

\* The host's reference port lists other references; no call tells the server.
Offer(refs) ==
  /\ Happens /\ offered' = refs /\ refs # offered
  /\ UNCHANGED <<accounts, concepts, intent, flight, session, removals, hour>>

\* The host removed a reference for good (storage.removeConceptReference).
RemoveReference(r) ==
  LET i == SourceRemoved(intent, r)
      cleared == IF i.pending # NoJob /\ r \in i.pending.sources THEN [i EXCEPT !.pending = NoJob] ELSE i
  IN /\ Happens /\ removals[r] = 0
     /\ offered' = offered \ {r}
     /\ removals' = [removals EXCEPT ![r] = @ + 1]
     /\ Erase(Resting(r))
     /\ intent' = cleared
     /\ flight' = Warned(cleared, session, concepts', offered')
     /\ UNCHANGED <<accounts, session, hour>>

\* A granted revision runs the lane again once its flight, if aborted, is over.
Grant(unchanged) ==
  LET kept == unchanged /\ ~session.revoked
      s == [session EXCEPT !.consent = @ + 1, !.revoked = FALSE,
                           !.conversation = IF kept THEN @ ELSE session.consent + 1]
  IN /\ Happens
     /\ session' = s
     /\ IF Idle THEN Run(intent, s, concepts, offered, "progress")
        ELSE /\ flight' = [Warned(intent, s, concepts, offered) EXCEPT !.again = TRUE]
             /\ UNCHANGED intent
     /\ UNCHANGED <<accounts, concepts, offered, removals, hour>>

Revoke ==
  LET s == [session EXCEPT !.consent = @ + 1, !.revoked = TRUE, !.conversation = session.consent + 1]
      i == ConversationEnded(ConsentRevised(intent, FALSE, s.consent))
  IN /\ Happens /\ ~session.revoked
     /\ session' = s
     /\ Erase(DOMAIN concepts)
     /\ intent' = [i EXCEPT !.pending = NoJob, !.sources = @ \cap Turns]
     /\ flight' = Warned(intent', s, concepts', offered)
     /\ UNCHANGED <<accounts, offered, removals, hour>>

Pause ==
  /\ Happens /\ ~session.paused
  /\ session' = [session EXCEPT !.paused = TRUE]
  /\ UNCHANGED <<accounts, concepts, intent, flight, offered, removals, hour>>

Resume ==
  LET s == [session EXCEPT !.paused = FALSE]
  IN /\ Happens /\ session.paused
     /\ session' = s
     /\ Schedule(intent, s, concepts, offered, "progress")
     /\ UNCHANGED <<accounts, concepts, offered, removals, hour>>

\* Another visuals choice; the supersede that follows after an await is Abort.
ChooseVisuals ==
  /\ Happens /\ session' = [session EXCEPT !.choice = 1 - @]
  /\ UNCHANGED <<accounts, concepts, intent, flight, offered, removals, hour>>

\* A vote for a concept, or its rejection.
Judge(c, liked) ==
  /\ Happens /\ ~session.revoked /\ ~concepts[c].erased
  /\ concepts' = IF liked THEN [concepts EXCEPT ![c].liked = TRUE]
                 ELSE [concepts EXCEPT ![c].liked = FALSE, ![c].archived = TRUE]
  /\ concepts' # concepts
  /\ UNCHANGED <<accounts, intent, flight, session, offered, removals, hour>>

\* The call closed, or the page said the conversation is over (ended).
EndEligibility ==
  /\ Happens /\ (intent.eligible \/ intent.model # 0)
  /\ intent' = ConversationEnded(intent)
  /\ UNCHANGED <<accounts, concepts, flight, session, offered, removals, hour>>

-----------------------------------------------------------------------------
(* The flight *)

\* unchanged, and the durable job is still the one planned.
Current ==
  /\ InputRev(session) = flight.input /\ session.choice = flight.choice
  /\ ~session.revoked /\ ~session.paused
  /\ intent.pending # NoJob /\ intent.pending.id = flight.job.id

Reason == \/ Cardinality(DOMAIN claims) >= PerSession
          \/ Cardinality({j \in DOMAIN claims : claims[j] = today}) + others >= PerDay

At(stage) == ~Idle /\ flight.stage = stage
To(stage) == flight' = [flight EXCEPT !.stage = stage]

\* The flight is over: a job still pending has failed.
Ended ==
  LET i == IF intent.pending # NoJob /\ intent.pending.id = flight.job.id
           THEN [intent EXCEPT !.pending = NoJob] ELSE intent
  IN IF flight.again THEN Run(i, session, concepts, offered, "progress")
     ELSE intent' = i /\ flight' = NoFlight

Attempt == flight.job.id

\* The first checks of admit, then the host's availability.
Admit ==
  /\ At("planned")
  /\ hour' = Closing
  /\ IF Open /\ Current /\ ~flight.aborted THEN To("evaluating") /\ UNCHANGED intent ELSE Ended
  /\ UNCHANGED <<accounts, concepts, session, offered, removals, events>>

\* The answer is yes: everything is checked again and the wallet asked.
AskWallet ==
  /\ At("evaluating") /\ ~Reason /\ Open /\ Current /\ ~flight.aborted
  /\ To("wallet")
  /\ hold' = [hold EXCEPT ![Attempt] = "asked"]
  /\ UNCHANGED <<visit, row, claims, today, others, concepts, intent>>

Refused ==
  /\ At("evaluating") \/ At("wallet")
  /\ Ended
  /\ hold' = IF At("wallet") THEN [hold EXCEPT ![Attempt] = "none"] ELSE hold
  /\ hour' = Closing
  /\ UNCHANGED <<row, claims, today, others, concepts, session, offered, removals, events>>

\* Seeded fault: the hour ends during the wallet's answer, and its hold is forgotten.
WalletHeldAnyway(room) ==
  /\ At("wallet")
  /\ hour' = Closing
  /\ hold' = [hold EXCEPT ![Attempt] = "held"]
  /\ IF Open THEN /\ IF room THEN To("claimed") /\ row' = [row EXCEPT ![Attempt] = "claimed"]
                             ELSE To("returning") /\ UNCHANGED row
                  /\ UNCHANGED intent
             ELSE Ended /\ UNCHANGED row
  /\ UNCHANGED <<claims, today, others, concepts, session, offered, removals, events>>

\* The wallet took the hold; the ledger has room or not. Nothing here looks
\* at the signal or at the session.
WalletHeld(room) ==
  /\ At("wallet")
  /\ hour' = Closing
  /\ hold' = [hold EXCEPT ![Attempt] = "held"]
  /\ IF Open /\ room THEN To("claimed") /\ row' = [row EXCEPT ![Attempt] = "claimed"]
                     ELSE To("returning") /\ UNCHANGED row
  /\ UNCHANGED <<claims, today, others, concepts, intent, session, offered, removals, events>>

\* ownerWallet.release; a failure is left to the host under the attempt's name.
Return(answered) ==
  /\ At("returning")
  /\ hold' = [hold EXCEPT ![Attempt] = IF answered THEN "none" ELSE "lost"]
  /\ Ended
  /\ UNCHANGED <<visit, row, claims, today, others, concepts>>

Settled == row' = [row EXCEPT ![Attempt] = "settled"]

\* attempt.consume, called by the plugin: the checks before the consent port.
Consume ==
  /\ At("claimed")
  /\ hour' = Closing
  /\ IF Open /\ Current /\ ~flight.aborted THEN To("consuming") /\ UNCHANGED <<intent, row>>
                                           ELSE Ended /\ Settled
  /\ UNCHANGED <<hold, claims, today, others, concepts, session, offered, removals, events>>

\* Seeded fault: nothing is compared again after the consent port answered.
DispatchUnchecked ==
  /\ At("consuming") /\ ~Reason
  /\ claims' = [j \in DOMAIN claims \cup {Attempt} |-> IF j = Attempt THEN today ELSE claims[j]]
  /\ row' = [row EXCEPT ![Attempt] = "dispatched"]
  /\ To("dispatched")
  /\ UNCHANGED <<visit, hold, today, others, concepts, intent>>

\* Seeded fault: the limits are those the render was admitted under.
DispatchUncounted ==
  /\ At("consuming") /\ Open /\ Current /\ ~flight.aborted
  /\ claims' = [j \in DOMAIN claims \cup {Attempt} |-> IF j = Attempt THEN today ELSE claims[j]]
  /\ row' = [row EXCEPT ![Attempt] = "dispatched"]
  /\ To("dispatched")
  /\ UNCHANGED <<visit, hold, today, others, concepts, intent>>

\* The port covers the purpose: checked again, counted and dispatched at once.
Dispatch ==
  /\ At("consuming") /\ Open /\ Current /\ ~flight.aborted /\ ~Reason
  /\ claims' = [j \in DOMAIN claims \cup {Attempt} |-> IF j = Attempt THEN today ELSE claims[j]]
  /\ row' = [row EXCEPT ![Attempt] = "dispatched"]
  /\ To("dispatched")
  /\ UNCHANGED <<visit, hold, today, others, concepts, intent>>

\* Every other way out before a result: no coverage, no capacity, the hour, a
\* change, an abort seen by the lane, or the provider's failure. finish settles.
Broken ==
  /\ (At("claimed") /\ flight.aborted) \/ At("consuming") \/ At("dispatched")
  /\ Ended /\ Settled
  /\ hour' = Closing
  /\ UNCHANGED <<hold, claims, today, others, concepts, session, offered, removals, events>>

Rendered ==
  /\ At("dispatched") /\ ~flight.aborted
  /\ Settled
  /\ flight' = [flight EXCEPT !.stage = "checking", !.read = session.consent]
  /\ UNCHANGED <<visit, hold, claims, today, others, concepts, intent>>

\* processingAllowed: covered, and no revision while the port was asked.
Covered ==
  /\ At("checking") /\ ~flight.aborted /\ ~session.revoked /\ session.consent = flight.read
  /\ To("publishing")
  /\ UNCHANGED <<visit, accounts, concepts, intent>>

Unpublished ==
  /\ At("checking") \/ At("publishing")
  /\ Ended
  /\ UNCHANGED <<visit, accounts, concepts>>

\* What a concept rests on: its own sources, and those of its references.
Dependencies(job) ==
  job.sources \cup UNION {concepts[c].deps : c \in {c \in DOMAIN concepts :
                                               concepts[c].id \in job.sources /\ ~concepts[c].erased}}

\* The disposition, then storage.completeConcept in one transaction.
Complete ==
  LET job == flight.job  i == Synced(intent, session, concepts, offered)
  IN /\ At("publishing") /\ ~flight.aborted /\ Stands(i, job)
     /\ ~session.revoked /\ intent.pending # NoJob /\ intent.pending.id = job.id
     /\ job.sources \cap session.withdrawn = {}
     /\ concepts' = Append(concepts, [id |-> job.id, deps |-> Dependencies(job), seen |-> job.seen,
                                      liked |-> FALSE, archived |-> FALSE, erased |-> FALSE])
     /\ LET done == [i EXCEPT !.pending = NoJob]
        IN IF flight.again THEN Run(done, session, concepts', offered, "progress")
           ELSE intent' = done /\ flight' = NoFlight
     /\ UNCHANGED <<visit, accounts>>

\* The deadline of the render, another visuals choice, or a lapsed coverage.
Abort ==
  /\ ~Idle /\ ~flight.aborted
  /\ flight' = [flight EXCEPT !.aborted = TRUE]
  /\ UNCHANGED <<visit, accounts, concepts, intent>>

-----------------------------------------------------------------------------
(* The day, the hour and the process *)

OtherRender ==
  /\ Happens /\ Cardinality({j \in DOMAIN claims : claims[j] = today}) + others < PerDay
  /\ others' = others + 1
  /\ UNCHANGED <<session, offered, removals, hour, concepts, intent, flight, row, hold, claims, today>>

NextDay ==
  /\ Happens /\ today' = today + 1 /\ others' = 0
  /\ UNCHANGED <<session, offered, removals, hour, concepts, intent, flight, row, hold, claims>>

HourPasses ==
  /\ ~hour.late /\ hour' = [hour EXCEPT !.late = TRUE]
  /\ UNCHANGED <<session, offered, removals, events, accounts, concepts, intent, flight>>

\* The timer, whenever it fires.
Tick ==
  /\ hour.late /\ hour.status = "active" /\ hour' = Closing
  /\ UNCHANGED <<session, offered, removals, events, accounts, concepts, intent, flight>>

\* Seeded fault: a restart leaves the pending job alone.
RestartPending ==
  /\ Happens
  /\ flight' = NoFlight
  /\ row' = [j \in Jobs |-> IF row[j] = "none" THEN "none" ELSE "settled"]
  /\ hold' = [j \in Jobs |-> IF hold[j] = "asked" \/ (hold[j] = "held" /\ row[j] = "none")
                             THEN "lost" ELSE hold[j]]
  /\ hour' = Closing
  /\ UNCHANGED <<intent, claims, today, others, concepts, session, offered, removals>>

\* A crash, then budget.recover and conceptHandlers.resume before any request.
\* A hold without a row, or one being asked for, is the host's to find.
Restart ==
  /\ Happens
  /\ flight' = NoFlight
  /\ intent' = [intent EXCEPT !.pending = NoJob]
  /\ row' = [j \in Jobs |-> IF row[j] = "none" THEN "none" ELSE "settled"]
  /\ hold' = [j \in Jobs |-> IF hold[j] = "asked" \/ (hold[j] = "held" /\ row[j] = "none")
                             THEN "lost" ELSE hold[j]]
  /\ hour' = Closing
  /\ UNCHANGED <<claims, today, others, concepts, session, offered, removals>>

-----------------------------------------------------------------------------
Init ==
  /\ session = [turns |-> 0, withdrawn |-> {}, consent |-> 0, conversation |-> 0, revoked |-> FALSE,
                paused |-> FALSE, choice |-> 0, assessed |-> [rev |-> <<>>, level |-> 0]]
  /\ offered \in SUBSET Refs /\ removals = [r \in Refs |-> 0]
  /\ concepts = <<>>
  /\ intent = [rev |-> <<>>, sources |-> {}, wish |-> NoWish, model |-> 0, armed |-> 0, eligible |-> TRUE,
               consented |-> FALSE, consent |-> 0, paused |-> FALSE, invalidation |-> 0,
               versions |-> [k \in Sources |-> 0], attempted |-> {}, last |-> NoJob, pending |-> NoJob]
  /\ flight = NoFlight
  /\ row = [j \in Jobs |-> "none"] /\ hold = [j \in Jobs |-> "none"]
  /\ claims = <<>> /\ today = 0 /\ others = 0
  /\ hour = [status |-> "active", late |-> FALSE] /\ events = 0

PersonOrHost ==
  \/ RecordTurn
  \/ \E level \in Levels, heard \in BOOLEAN : Understood(level, heard)
  \/ \E t \in Turns : Ask(t)
  \/ \E t \in Turns, expired \in BOOLEAN : Withdraw(t, expired)
  \/ \E refs \in SUBSET Refs : Offer(refs)
  \/ \E r \in Refs : RemoveReference(r)
  \/ \E unchanged \in BOOLEAN : Grant(unchanged)
  \/ Revoke
  \/ Pause
  \/ Resume
  \/ ChooseVisuals
  \/ \E c \in DOMAIN concepts, liked \in BOOLEAN : Judge(c, liked)
  \/ EndEligibility

Flies ==
  \/ Admit
  \/ AskWallet
  \/ Refused
  \/ \E room \in BOOLEAN : WalletHeld(room)
  \/ \E answered \in BOOLEAN : Return(answered)
  \/ Consume
  \/ Dispatch
  \/ Broken
  \/ Rendered
  \/ Covered
  \/ Unpublished
  \/ Complete

Next == PersonOrHost \/ Flies \/ Abort \/ OtherRender \/ NextDay \/ HourPasses \/ Tick \/ Restart

Spec == Init /\ [][Next]_vars

-----------------------------------------------------------------------------
(* Properties *)

\* A concept that is shown rests on nothing that was taken back since the render
\* was planned: no withdrawn turn, no copy of a reference the host removed, no
\* concept that was erased, no consent that was withdrawn.
ArtifactsBacked ==
  \A c \in DOMAIN concepts : ~concepts[c].erased =>
    /\ ~session.revoked
    /\ concepts[c].deps \cap session.withdrawn = {}
    /\ \A r \in concepts[c].deps \cap Refs : removals[r] = concepts[c].seen[r]
    /\ \A d \in DOMAIN concepts : concepts[d].id \in concepts[c].deps => ~concepts[d].erased

\* Whatever happened in the awaits of its admission, a render is paid for only
\* when it is the pending job of an unchanged, consenting and running conversation
\* in its hour, whose signal nobody has aborted.
PaidIfCurrent ==
  [][ \A j \in Jobs : row'[j] = "dispatched" /\ row[j] # "dispatched" =>
        /\ intent.pending # NoJob /\ intent.pending.id = j
        /\ intent.pending.rev[1] = InputRev(session)
        /\ session.choice = flight.choice /\ ~session.revoked /\ ~session.paused
        /\ ~hour.late /\ ~flight.aborted ]_vars

\* However many renders were planned or admitted under the limits, those paid for
\* are within the session's lifetime count and the deployment's count of the day.
WithinLimits ==
  /\ Cardinality(DOMAIN claims) <= PerSession
  /\ Cardinality({j \in DOMAIN claims : claims[j] = today}) + others <= PerDay

\* A hold the owner's wallet confirmed is behind a row of the ledger, or on its
\* way back: a refused admission never leaves it with the owner. (Lost are the
\* holds whose admission a crash or the wallet's own failure cut short.)
WalletReturned ==
  \A j \in Jobs : hold[j] = "held" /\ row[j] = "none" => At("returning") /\ Attempt = j

\* A durable job that is pending has the flight that will end it, with a concept
\* or with a failure the viewer is told: no early end, replacement, revocation or
\* restart leaves the lane busy with a job nobody is working on.
PendingFlies == intent.pending # NoJob => ~Idle /\ flight.job.id = intent.pending.id
=============================================================================
