------------------------- MODULE SessionLanesProofs -------------------------
(***************************************************************************)
(* Proofs about SessionLanes, for any number of runs, choices and events,  *)
(* and for whatever callers run the lanes; and about LaneJobs, where the   *)
(* handlers' jobs are those callers.                                       *)
(*                                                                         *)
(* The invariant LanesInv adds to the types three facts: a run that is     *)
(* still wanted owns its lane; the revision a run was admitted with is the *)
(* one it reads its prompt from, identity aside for a reply; and a run     *)
(* whose gate is the session's was not barred. The invariants of the runs  *)
(* that are paid and of the jobs are added where they are used.            *)
(***************************************************************************)
EXTENDS LaneJobs, TLAPS

Working(f) == flights[f].at \in {"admitting", "consenting", "called"}

WantedOwns == \A f \in Flights : Live(f) /\ ~Aborted(f) => Owner(f)

AskedForSeen ==
  \A f \in Flights : Working(f) =>
    \/ flights[f].asked = flights[f].seen
    \/ flights[f].lane = "reaction" /\ ReplyOf(flights[f].asked) = ReplyOf(flights[f].seen)

GateOpen ==
  \A f \in Flights : Working(f) =>
    /\ flights[f].seen[2] <= session.gate
    /\ flights[f].seen[2] = session.gate => ~session.barred

LanesInv == LanesTypeOK /\ WantedOwns /\ AskedForSeen /\ GateOpen

-----------------------------------------------------------------------------
(* What the operators return *)

\* The revision of a well-typed session is a revision, with the gate in it.
LEMMA RevisionOfSession ==
  ASSUME LanesTypeOK
  PROVE  /\ InputRev(session) \in Revision
         /\ InputRev(session)[2] = session.gate
         /\ ReplyRev(session) = ReplyOf(InputRev(session))
BY DEF LanesTypeOK, SessionRecord, InputRev, Revision, ReplyRev

\* A name that is not in use has a well-typed record.
LEMMA IdleTyped == Idle \in FlightRecord
BY DEF Idle, FlightRecord, Stages, Lanes, NoRevision, Revision

\* An abort changes the signal of a run and nothing else of it.
LEMMA AbortKeeps ==
  ASSUME LanesTypeOK, NEW S
  PROVE  /\ AbortAll(S) \in [Flights -> FlightRecord]
         /\ \A f \in Flights :
              /\ AbortAll(S)[f].at = flights[f].at
              /\ AbortAll(S)[f].lane = flights[f].lane
              /\ AbortAll(S)[f].seen = flights[f].seen
              /\ AbortAll(S)[f].asked = flights[f].asked
              /\ AbortAll(S)[f].shown = flights[f].shown
              /\ AbortAll(S)[f].signal # "aborted" => flights[f].signal # "aborted" /\ f \notin S
              /\ AbortAll(S)[f].signal = "on" => flights[f].signal = "on"
<1>1. \A f \in Flights : flights[f] \in FlightRecord
  BY DEF LanesTypeOK
<1>2. \A f \in Flights : AbortAll(S)[f] =
        IF f \in S THEN [flights[f] EXCEPT !.signal = "aborted"] ELSE flights[f]
  BY DEF AbortAll
<1>3. \A f \in Flights : [flights[f] EXCEPT !.signal = "aborted"] \in FlightRecord
  BY <1>1 DEF FlightRecord
<1>4. AbortAll(S) \in [Flights -> FlightRecord]
  BY <1>1, <1>3 DEF AbortAll
<1>5. ASSUME NEW f \in Flights
      PROVE  /\ AbortAll(S)[f].at = flights[f].at
             /\ AbortAll(S)[f].lane = flights[f].lane
             /\ AbortAll(S)[f].seen = flights[f].seen
             /\ AbortAll(S)[f].asked = flights[f].asked
             /\ AbortAll(S)[f].shown = flights[f].shown
             /\ AbortAll(S)[f].signal # "aborted" => flights[f].signal # "aborted" /\ f \notin S
             /\ AbortAll(S)[f].signal = "on" => flights[f].signal = "on"
  BY <1>1, <1>2 DEF FlightRecord
<1> QED
  BY <1>4, <1>5

\* A new run has the revision and the choice of the session, and an admission
\* it asks for is asked with them, while the session is not barred.
LEMMA LaunchedRun ==
  ASSUME LanesTypeOK, LanesAssumption, NEW lane \in Lanes
  PROVE  /\ Launched(lane) \in FlightRecord
         /\ Launched(lane).at \in {"admitting", "ended"}
         /\ Launched(lane).lane = lane
         /\ Launched(lane).seen = InputRev(session)
         /\ ~Launched(lane).shown
         /\ Launched(lane).at = "admitting" =>
              Launched(lane).asked = InputRev(session) /\ ~session.barred
<1> DEFINE run == [Idle EXCEPT !.lane = lane, !.seen = InputRev(session), !.sel = session.sel]
<1> DEFINE ended == [run EXCEPT !.at = "ended"]
<1> DEFINE drafts == (lane = "understanding" /\ HasDraft)
                     /\ session.und # [rev |-> InputRev(session), draft |-> TRUE]
<1> DEFINE asking == [run EXCEPT !.at = "admitting", !.asked = InputRev(session), !.draft = drafts]
<1>1. InputRev(session) \in Revision /\ session.sel \in Selections
  BY RevisionOfSession DEF LanesTypeOK, SessionRecord
<1>2. drafts \in BOOLEAN
  OBVIOUS
<1>3. /\ ended \in FlightRecord /\ ended.at = "ended" /\ ended.lane = lane
      /\ ended.seen = InputRev(session) /\ ~ended.shown
  BY <1>1, IdleTyped DEF Idle, FlightRecord, Stages
<1>4. /\ asking \in FlightRecord /\ asking.at = "admitting" /\ asking.lane = lane
      /\ asking.seen = InputRev(session) /\ asking.asked = InputRev(session) /\ ~asking.shown
  <2> HIDE DEF drafts
  <2> QED BY <1>1, <1>2, IdleTyped DEF Idle, FlightRecord, Stages
<1>5. CASE ~Due(session, lane) \/ session.paused
  <2>1. Launched(lane) = ended
    BY <1>5 DEF Launched
  <2> QED BY <2>1, <1>3
<1>6. CASE ~(~Due(session, lane) \/ session.paused)
  <2>1. Launched(lane) = asking
    BY <1>6 DEF Launched
  <2>2. ~session.barred
    BY <1>6 DEF Due
  <2> QED BY <2>1, <2>2, <1>4
<1> QED BY <1>5, <1>6

\* A run that settles keeps its lane and its signal, and shows nothing more.
LEMMA EndedRun ==
  ASSUME LanesTypeOK, NEW f \in Flights, NEW b \in BOOLEAN, Ended(f, b)
  PROVE  /\ flights' \in [Flights -> FlightRecord]
         /\ \A g \in Flights \ {f} : flights'[g] = flights[g]
         /\ flights'[f].at = "ended" /\ ~flights'[f].shown
         /\ flights'[f].lane = flights[f].lane
         /\ flights'[f].seen = flights[f].seen
         /\ flights'[f].signal = flights[f].signal
<1> DEFINE r == [Idle EXCEPT !.at = "ended", !.lane = flights[f].lane, !.seen = flights[f].seen,
                   !.sel = flights[f].sel, !.signal = flights[f].signal, !.failed = b]
<1>1. flights[f] \in FlightRecord
  BY DEF LanesTypeOK
<1>2. /\ r \in FlightRecord /\ r.at = "ended" /\ ~r.shown /\ r.seen = flights[f].seen
      /\ r.lane = flights[f].lane /\ r.signal = flights[f].signal
  BY ZenonT(60), <1>1, IdleTyped DEF Idle, FlightRecord, Stages
<1>3. flights' = [flights EXCEPT ![f] = r]
  BY DEF Ended
<1> HIDE DEF r
<1>4. flights \in [Flights -> FlightRecord]
  BY DEF LanesTypeOK
<1> QED BY <1>2, <1>3, <1>4
-----------------------------------------------------------------------------
(* What the actions do *)

\* A session event aborts some runs, leaves their lanes alone, and bars the
\* session only together with a new gate.
EventEffect(S) ==
  /\ session' \in SessionRecord
  /\ session'.gate \in Nat /\ session.gate <= session'.gate
  /\ session'.gate = session.gate => session'.barred = session.barred
  /\ flights' = AbortAll(S)
  /\ slot' = slot /\ events' \in Nat

\* Aborting nobody changes nothing.
LEMMA NoAbort == ASSUME LanesTypeOK PROVE AbortAll({}) = flights
BY DEF LanesTypeOK, AbortAll

\* A session event keeps each run but for an abort, and its revision only grows.
LEMMA EventShape ==
  ASSUME LanesTypeOK, LanesAssumption, SessionEvent
  PROVE  \E S : EventEffect(S)
<1> USE DEF Event
<1>0. /\ session \in SessionRecord /\ events \in Nat
      /\ EmptyUnderstanding \in [rev : Revision, draft : BOOLEAN]
  BY DEF LanesTypeOK, EmptyUnderstanding, Revision, NoRevision
<1>a. /\ session.input \in Nat /\ session.gate \in Nat
      /\ session.ident \in Nat /\ session.active \in Nat
  BY <1>0 DEF SessionRecord
<1>b. /\ session.input + 1 \in Nat /\ session.gate + 1 \in Nat /\ session.ident + 1 \in Nat
      /\ session.active + 1 \in Nat /\ (session.active > 0 => session.active - 1 \in Nat)
      /\ session.gate <= session.gate /\ session.gate <= session.gate + 1
      /\ session.gate + 1 # session.gate
  BY <1>a
<1>1. ASSUME NEW upload \in BOOLEAN, AddInput(upload) PROVE \E S : EventEffect(S)
  <2>1. session' \in SessionRecord /\ session.gate <= session'.gate
        /\ (session'.gate = session.gate => session'.barred = session.barred)
    BY <1>0, <1>b, <1>1 DEF AddInput, SessionRecord
  <2>2. flights' = AbortAll({f \in Flights : Live(f) /\ Owner(f) /\ Outdated(f, session')}) /\ slot' = slot /\ events' \in Nat
    BY <1>0, <1>b, <1>1 DEF AddInput, Supersede
  <2>3. session'.gate \in Nat
    BY <2>1 DEF SessionRecord
  <2>4. EventEffect({f \in Flights : Live(f) /\ Owner(f) /\ Outdated(f, session')})
    BY <2>1, <2>2, <2>3 DEF EventEffect
  <2> QED BY <2>4
<1>2. CASE WithdrawInput
  <2>1. session' \in SessionRecord /\ session.gate <= session'.gate
        /\ (session'.gate = session.gate => session'.barred = session.barred)
    BY <1>0, <1>b, <1>2 DEF WithdrawInput, SessionRecord, Withdrawable
  <2>2. flights' = AbortAll(Cancelled) /\ slot' = slot /\ events' \in Nat
    BY <1>0, <1>b, <1>2 DEF WithdrawInput, Cancel
  <2>3. session'.gate \in Nat
    BY <2>1 DEF SessionRecord
  <2>4. EventEffect(Cancelled)
    BY <2>1, <2>2, <2>3 DEF EventEffect
  <2> QED BY <2>4
<1>3. ASSUME NEW granted \in BOOLEAN, ReviseConsent(granted) PROVE \E S : EventEffect(S)
  <2>1. session' \in SessionRecord /\ session.gate <= session'.gate
        /\ (session'.gate = session.gate => session'.barred = session.barred)
    BY <1>0, <1>b, <1>3 DEF ReviseConsent, SessionRecord
  <2>2. flights' = AbortAll(Cancelled) /\ slot' = slot /\ events' \in Nat
    BY <1>0, <1>b, <1>3 DEF ReviseConsent, Cancel
  <2>3. session'.gate \in Nat
    BY <2>1 DEF SessionRecord
  <2>4. EventEffect(Cancelled)
    BY <2>1, <2>2, <2>3 DEF EventEffect
  <2> QED BY <2>4
<1>4. CASE Verify
  <2>1. session' \in SessionRecord /\ session.gate <= session'.gate
        /\ (session'.gate = session.gate => session'.barred = session.barred)
    BY <1>0, <1>b, <1>4 DEF Verify, SessionRecord
  <2>2. flights' = AbortAll({f \in Flights : Live(f) /\ Owner(f) /\ Outdated(f, session')}) /\ slot' = slot /\ events' \in Nat
    BY <1>0, <1>b, <1>4 DEF Verify, Supersede
  <2>3. session'.gate \in Nat
    BY <2>1 DEF SessionRecord
  <2>4. EventEffect({f \in Flights : Live(f) /\ Owner(f) /\ Outdated(f, session')})
    BY <2>1, <2>2, <2>3 DEF EventEffect
  <2> QED BY <2>4
<1>5. CASE ChangeAddress
  <2>1. session' \in SessionRecord /\ session.gate <= session'.gate
        /\ (session'.gate = session.gate => session'.barred = session.barred)
    BY <1>0, <1>b, <1>5 DEF ChangeAddress, SessionRecord
  <2>2. flights' = AbortAll({}) /\ slot' = slot /\ events' \in Nat
    BY <1>0, <1>b, <1>5, NoAbort DEF ChangeAddress
  <2>3. session'.gate \in Nat
    BY <2>1 DEF SessionRecord
  <2>4. EventEffect({})
    BY <2>1, <2>2, <2>3 DEF EventEffect
  <2> QED BY <2>4
<1>6. ASSUME NEW c \in Selections, ChangeSettings(c) PROVE \E S : EventEffect(S)
  <2>1. session' \in SessionRecord /\ session.gate <= session'.gate
        /\ (session'.gate = session.gate => session'.barred = session.barred)
    BY <1>0, <1>b, <1>6 DEF ChangeSettings, SessionRecord
  <2>2. flights' = AbortAll({f \in Flights : Live(f) /\ Owner(f) /\ Outdated(f, session')}) /\ slot' = slot /\ events' \in Nat
    BY <1>0, <1>b, <1>6 DEF ChangeSettings, Supersede
  <2>3. session'.gate \in Nat
    BY <2>1 DEF SessionRecord
  <2>4. EventEffect({f \in Flights : Live(f) /\ Owner(f) /\ Outdated(f, session')})
    BY <2>1, <2>2, <2>3 DEF EventEffect
  <2> QED BY <2>4
<1>7. ASSUME NEW p \in BOOLEAN, SetPaused(p) PROVE \E S : EventEffect(S)
  <2>1. session' \in SessionRecord /\ session.gate <= session'.gate
        /\ (session'.gate = session.gate => session'.barred = session.barred)
    BY <1>0, <1>b, <1>7 DEF SetPaused, SessionRecord
  <2>2. flights' = AbortAll({}) /\ slot' = slot /\ events' \in Nat
    BY <1>0, <1>b, <1>7, NoAbort DEF SetPaused
  <2>3. session'.gate \in Nat
    BY <2>1 DEF SessionRecord
  <2>4. EventEffect({})
    BY <2>1, <2>2, <2>3 DEF EventEffect
  <2> QED BY <2>4
<1> QED
  BY <1>1, <1>2, <1>3, <1>4, <1>5, <1>6, <1>7 DEF SessionEvent

\* A step of a run changes that run only.  It stays in its lane, keeps its
\* abort, and asks for admission anew only while its input is the session's.
StepEffect(f) ==
  /\ flights' \in [Flights -> FlightRecord]
  /\ \A g \in Flights \ {f} : flights'[g] = flights[g]
  /\ Working(f) /\ flights'[f].at # "idle"
  /\ flights'[f].lane = flights[f].lane /\ flights'[f].seen = flights[f].seen
  /\ flights'[f].signal # "aborted" => flights[f].signal # "aborted"
  /\ flights'[f].signal = "on" => flights[f].signal = "on"
  /\ flights'[f].at # "ended" =>
       \/ flights'[f].asked = flights[f].asked
       \/ /\ SameInput(flights[f].lane, flights[f].seen, session)
          /\ flights'[f].asked = InputRev(session) /\ flights[f].lane = "understanding"
  /\ Dispatched(f) => Consumable(f)
  /\ Shown(f) \/ Stored(f) => SameInput(flights[f].lane, flights[f].seen, session)
  /\ session' \in SessionRecord
  /\ session'.gate = session.gate /\ session'.barred = session.barred
  /\ slot' = slot /\ events' = events

\* A step of a run leaves the other runs and the lanes alone.
LEMMA StepShape ==
  ASSUME LanesTypeOK, NEW f \in Flights, FlightStep(f)
  PROVE  StepEffect(f)
<1> USE DEF Working, Dispatched, Shown, Stored
<1>0. /\ session \in SessionRecord /\ InputRev(session) \in Revision
      /\ flights \in [Flights -> FlightRecord] /\ flights[f] \in FlightRecord
  BY RevisionOfSession DEF LanesTypeOK
<1>1. CASE Admit(f)
  BY <1>0, <1>1 DEF Admit, StepEffect, FlightRecord, Stages
<1>2. CASE Dispatch(f)
  BY <1>0, <1>2 DEF Dispatch, Consumable, StepEffect, FlightRecord, Stages
<1>3. CASE Refuse(f)
  BY <1>0, <1>3, EndedRun DEF Refuse, Fails, StepEffect
<1>4. CASE Show(f)
  BY <1>0, <1>4 DEF Show, Current, StepEffect, FlightRecord, Stages
<1>5. CASE Compatibility(f)
  <2>1. CASE session.paused
    BY <1>0, <1>5, <2>1, EndedRun DEF Compatibility, Fails, StepEffect
  <2>2. CASE ~session.paused
    BY <1>0, <1>5, <2>2 DEF Compatibility, Current, StepEffect, FlightRecord, Stages
  <2> QED BY <2>1, <2>2
<1>6. CASE PublishReply(f)
  <2>1. session' \in SessionRecord /\ session'.gate = session.gate /\ session'.barred = session.barred
    BY <1>0, <1>6 DEF PublishReply, SessionRecord
  <2> QED BY <1>0, <1>6, <2>1, EndedRun DEF PublishReply, Returns, Current, StepEffect
<1>7. CASE PublishUnderstanding(f)
  <2>1. CASE ~Current(f)
    BY <1>0, <1>7, <2>1, EndedRun DEF PublishUnderstanding, Returns, StepEffect
  <2>2. CASE Current(f)
    <3>1. /\ session' \in SessionRecord
          /\ session'.gate = session.gate /\ session'.barred = session.barred
      BY <1>0, <1>7, <2>2 DEF PublishUnderstanding, SessionRecord, FlightRecord
    <3>2. CASE ~flights[f].draft \/ session.paused
      BY <1>0, <1>7, <2>2, <3>1, <3>2, EndedRun
      DEF PublishUnderstanding, Returns, Current, StepEffect
    <3>3. CASE ~(~flights[f].draft \/ session.paused)
      BY <1>0, <1>7, <2>2, <3>1, <3>3
      DEF PublishUnderstanding, Current, StepEffect, FlightRecord, Stages
    <3> QED BY <3>2, <3>3
  <2> QED BY <2>1, <2>2
<1>8. CASE Expire(f)
  BY <1>0, <1>8 DEF Expire, Stopped, StepEffect, FlightRecord, Stages
<1> QED
  BY <1>1, <1>2, <1>3, <1>4, <1>5, <1>6, <1>7, <1>8 DEF FlightStep
-----------------------------------------------------------------------------
(* The invariant *)

\* The invariant holds at the start.
LEMMA InitHolds == ASSUME LanesInit, LanesAssumption PROVE LanesInv
<1>1. LanesTypeOK
  <2>1. /\ EmptyUnderstanding \in [rev : Revision, draft : BOOLEAN] /\ NoRevision \in Revision
    BY DEF EmptyUnderstanding, NoRevision, Revision
  <2>2. session \in SessionRecord
    BY <2>1 DEF LanesInit, SessionRecord
  <2> QED BY <2>2, IdleTyped DEF LanesInit, LanesTypeOK
<1>2. \A f \in Flights : flights[f].at = "idle"
  BY DEF LanesInit, Idle
<1> QED
  BY <1>1, <1>2 DEF LanesInv, WantedOwns, AskedForSeen, GateOpen, Live, Working

\* Launching a run keeps the invariant: it aborts the lane's owner and takes its place.
LEMMA LaunchKeeps ==
  ASSUME LanesInv, LanesAssumption, NEW lane \in Lanes, NEW f \in Flights, Launch(lane, f)
  PROVE  LanesInv'
<1> DEFINE n == Launched(lane)
           A == AbortAll({slot[lane]})
<1>1. LanesTypeOK /\ WantedOwns /\ AskedForSeen /\ GateOpen
  BY DEF LanesInv
<1>2. /\ n \in FlightRecord /\ n.at \in {"admitting", "ended"} /\ n.lane = lane
      /\ n.seen = InputRev(session)
      /\ n.at = "admitting" => n.asked = InputRev(session) /\ ~session.barred
  BY <1>1, LaunchedRun
<1>3. /\ A \in [Flights -> FlightRecord]
      /\ \A g \in Flights :
           /\ A[g].at = flights[g].at /\ A[g].lane = flights[g].lane
           /\ A[g].seen = flights[g].seen /\ A[g].asked = flights[g].asked
           /\ A[g].signal # "aborted" => flights[g].signal # "aborted" /\ g # slot[lane]
  BY <1>1, AbortKeeps
<1> HIDE DEF n, A
<1>4. /\ flights' = [A EXCEPT ![f] = n] /\ slot' = [slot EXCEPT ![lane] = f]
      /\ session' = session /\ events' = events
  BY DEF Launch, n, A
<1>5. /\ flights' \in [Flights -> FlightRecord] /\ flights'[f] = n
      /\ \A g \in Flights \ {f} : flights'[g] = A[g]
  BY <1>2, <1>3, <1>4
<1>6. slot \in [Lanes -> Flights \cup {NoFlight}] /\ \A g \in Flights : flights[g].lane \in Lanes
  BY <1>1 DEF LanesTypeOK, FlightRecord
<1>7. LanesTypeOK'
  BY <1>1, <1>4, <1>5 DEF LanesTypeOK
<1>8. WantedOwns'
  <2>1. slot'[lane] = f
    BY <1>4, <1>6
  <2>2. ASSUME NEW g \in Flights \ {f}, Live(g)', ~Aborted(g)' PROVE Owner(g)'
    <3>1. slot[flights[g].lane] = g /\ g # slot[lane]
      BY <1>1, <1>3, <1>5, <2>2 DEF WantedOwns, Live, Aborted, Owner
    <3>2. flights[g].lane # lane
      BY <3>1
    <3> QED BY <1>3, <1>4, <1>5, <1>6, <3>1, <3>2 DEF Owner
  <2> QED BY <1>2, <1>5, <2>1, <2>2 DEF WantedOwns, Owner
<1>9. AskedForSeen'
  BY <1>1, <1>2, <1>3, <1>5 DEF AskedForSeen, Working
<1>10. GateOpen'
  <2>1. n.seen[2] = session.gate /\ session.gate <= session.gate
    BY <1>1, <1>2, RevisionOfSession DEF LanesTypeOK, SessionRecord
  <2> QED BY <1>1, <1>2, <1>3, <1>4, <1>5, <2>1 DEF GateOpen, Working
<1> QED
  BY <1>7, <1>8, <1>9, <1>10 DEF LanesInv

\* A step of a run between its awaits keeps the invariant.
LEMMA StepKeeps ==
  ASSUME LanesInv, LanesAssumption, NEW f \in Flights, FlightStep(f)
  PROVE  LanesInv'
<1>1. LanesTypeOK /\ WantedOwns /\ AskedForSeen /\ GateOpen
  BY DEF LanesInv
<1>2. StepEffect(f)
  BY <1>1, StepShape
<1>3. LanesTypeOK'
  BY <1>1, <1>2 DEF LanesTypeOK, StepEffect
<1>4. WantedOwns'
  BY <1>1, <1>2 DEF WantedOwns, StepEffect, Live, Aborted, Owner, Working
<1>5. AskedForSeen'
  <2>1. CASE Working(f)'
    <3>1. flights'[f].seen = flights[f].seen /\ flights'[f].lane = flights[f].lane
      BY <1>2, <2>1 DEF StepEffect, Working
    <3>2. CASE flights'[f].asked = flights[f].asked
      BY <1>1, <1>2, <3>1, <3>2 DEF AskedForSeen, StepEffect, Working
    <3>3. CASE /\ SameInput(flights[f].lane, flights[f].seen, session)
               /\ flights'[f].asked = InputRev(session) /\ flights[f].lane = "understanding"
      <4>1. \/ flights'[f].asked = flights'[f].seen
            \/ flights'[f].lane = "reaction" /\ ReplyOf(flights'[f].asked) = ReplyOf(flights'[f].seen)
        BY <3>1, <3>3 DEF SameInput, ReplyRev
      <4> QED BY <1>1, <1>2, <4>1 DEF AskedForSeen, StepEffect, Working
    <3> QED BY <1>2, <2>1, <3>2, <3>3 DEF StepEffect, Working
  <2>2. CASE ~Working(f)'
    BY <1>1, <1>2, <2>2 DEF AskedForSeen, StepEffect, Working
  <2> QED BY <2>1, <2>2
<1>6. GateOpen'
  BY <1>1, <1>2 DEF GateOpen, StepEffect, Working
<1> QED
  BY <1>3, <1>4, <1>5, <1>6 DEF LanesInv

\* A run that ends keeps the invariant: it gives back only its own lane.
LEMMA EndKeeps ==
  ASSUME LanesInv, LanesAssumption, NEW f \in Flights, End(f)
  PROVE  LanesInv'
<1>1. LanesTypeOK /\ WantedOwns /\ AskedForSeen /\ GateOpen
  BY DEF LanesInv
<1>2. /\ flights \in [Flights -> FlightRecord] /\ slot \in [Lanes -> Flights \cup {NoFlight}]
      /\ flights[f].lane \in Lanes
  BY <1>1 DEF LanesTypeOK, FlightRecord
<1>3. /\ flights' \in [Flights -> FlightRecord]
      /\ \A g \in Flights \ {f} : flights'[g] = flights[g]
      /\ flights'[f].at = "idle"
      /\ session' = session /\ events' = events
  <2>1. Idle.at = "idle"
    BY DEF Idle
  <2> QED BY <1>2, <2>1, IdleTyped DEF End
<1>4. slot' = slot \/ (slot[flights[f].lane] = f /\ slot' = [slot EXCEPT ![flights[f].lane] = NoFlight])
  BY DEF End, SlotLeft, Owner
<1>5. LanesTypeOK'
  BY <1>1, <1>2, <1>3, <1>4 DEF LanesTypeOK
<1>6. WantedOwns'
  <2>1. ASSUME NEW g \in Flights, Live(g)', ~Aborted(g)' PROVE Owner(g)'
    <3>1. g # f /\ flights'[g] = flights[g]
      BY <1>3, <2>1 DEF Live
    <3>2. slot[flights[g].lane] = g
      BY <1>1, <2>1, <3>1 DEF WantedOwns, Live, Aborted, Owner
    <3>3. flights[g].lane \in Lanes
      BY <1>1 DEF LanesTypeOK, FlightRecord
    <3> QED BY <1>2, <1>4, <3>1, <3>2, <3>3 DEF Owner
  <2> QED BY <2>1 DEF WantedOwns
<1>7. AskedForSeen' /\ GateOpen'
  BY <1>1, <1>3 DEF AskedForSeen, GateOpen, Working
<1> QED
  BY <1>5, <1>6, <1>7 DEF LanesInv

\* An event of the session, with the aborts of its handler, keeps the invariant.
LEMMA EventKeeps ==
  ASSUME LanesInv, LanesAssumption, SessionEvent
  PROVE  LanesInv'
<1>1. LanesTypeOK /\ WantedOwns /\ AskedForSeen /\ GateOpen
  BY DEF LanesInv
<1>2. PICK S : EventEffect(S)
  BY <1>1, EventShape
<1>3. /\ flights' \in [Flights -> FlightRecord]
      /\ \A f \in Flights :
           /\ flights'[f].at = flights[f].at /\ flights'[f].lane = flights[f].lane
           /\ flights'[f].seen = flights[f].seen /\ flights'[f].asked = flights[f].asked
           /\ flights'[f].signal # "aborted" => flights[f].signal # "aborted"
  BY <1>1, <1>2, AbortKeeps DEF EventEffect
<1>4. LanesTypeOK'
  BY <1>1, <1>2, <1>3 DEF LanesTypeOK, EventEffect
<1>5. WantedOwns'
  BY <1>1, <1>2, <1>3 DEF WantedOwns, EventEffect, Live, Aborted, Owner
<1>6. AskedForSeen'
  BY <1>1, <1>3 DEF AskedForSeen, Working
<1>7. GateOpen'
  <2>1. ASSUME NEW f \in Flights, Working(f)'
        PROVE  /\ flights'[f].seen[2] <= session'.gate
               /\ flights'[f].seen[2] = session'.gate => ~session'.barred
    <3>1. /\ flights'[f].seen[2] = flights[f].seen[2] /\ flights[f].seen[2] <= session.gate
          /\ flights[f].seen[2] = session.gate => ~session.barred
      BY <1>1, <1>3, <2>1 DEF GateOpen, Working
    <3>2. flights[f].seen[2] \in Int /\ session.gate \in Nat
      BY <1>1 DEF LanesTypeOK, FlightRecord, Revision, SessionRecord
    <3> QED BY <1>2, <3>1, <3>2 DEF EventEffect
  <2> QED BY <2>1 DEF GateOpen
<1> QED
  BY <1>4, <1>5, <1>6, <1>7 DEF LanesInv

\* A stuttering step keeps the invariant.
LEMMA StutterKeeps ==
  ASSUME LanesInv, UNCHANGED laneVars
  PROVE  LanesInv'
BY DEF LanesInv, LanesTypeOK, WantedOwns, AskedForSeen, GateOpen, laneVars,
       Live, Aborted, Owner, Working, InputRev

\* Every step keeps the invariant.
LEMMA NextKeeps ==
  ASSUME LanesInv, LanesAssumption, [LanesNext]_laneVars
  PROVE  LanesInv'
BY LaunchKeeps, StepKeeps, EndKeeps, EventKeeps, StutterKeeps DEF LanesNext

\* The strengthened invariant holds in every behaviour of the lanes: types, the
\* owner of a lane being its only wanted run, and a call's gate comparing the
\* input that its run began with.
THEOREM InvHolds == LanesSpec => []LanesInv
<1>1. LanesInit => LanesInv
  BY InitHolds, LanesAssumption
<1>2. LanesInv /\ [LanesNext]_laneVars => LanesInv'
  BY NextKeeps, LanesAssumption
<1> QED
  BY <1>1, <1>2, PTL DEF LanesSpec

-----------------------------------------------------------------------------
(* The properties *)

\* Every variable keeps its type; no session withdraws more than it has.
THEOREM LanesTypeCorrect == LanesSpec => []LanesTypeOK
<1>1. LanesInv => LanesTypeOK
  BY DEF LanesInv
<1> QED
  BY <1>1, InvHolds, PTL

\* However run is called, a lane never has two runs that are both wanted.
THEOREM OneWantedRun == LanesSpec => []SingleFlight
<1>1. LanesInv => SingleFlight
  BY DEF LanesInv, WantedOwns, Owner, SingleFlight
<1> QED
  BY <1>1, InvHolds, PTL

\* A step of a run dispatches, shows or stores only for that run.
LEMMA OtherSteps ==
  ASSUME LanesInv, LanesAssumption, [LanesNext]_laneVars, NEW f \in Flights,
         Dispatched(f) \/ Shown(f) \/ Stored(f)
  PROVE  StepEffect(f)
<1>1. LanesTypeOK /\ flights \in [Flights -> FlightRecord]
  BY DEF LanesInv, LanesTypeOK
<1>2. ASSUME NEW lane \in Lanes, NEW g \in Flights, Launch(lane, g) PROVE FALSE
  <2>1. flights' = [AbortAll({slot[lane]}) EXCEPT ![g] = Launched(lane)] /\ session' = session
    BY <1>2 DEF Launch
  <2>2. Launched(lane).at \in {"admitting", "ended"} /\ ~Launched(lane).shown
    BY <1>1, LaunchedRun
  <2>3. /\ AbortAll({slot[lane]}) \in [Flights -> FlightRecord]
        /\ AbortAll({slot[lane]})[f].at = flights[f].at
        /\ AbortAll({slot[lane]})[f].shown = flights[f].shown
    BY <1>1, AbortKeeps
  <2> QED BY <2>1, <2>2, <2>3 DEF Dispatched, Shown, Stored
<1>3. ASSUME NEW g \in Flights, FlightStep(g) PROVE StepEffect(f)
  <2>1. StepEffect(g)
    BY <1>1, <1>3, StepShape
  <2>2. f = g
    BY <2>1 DEF StepEffect, Dispatched, Shown, Stored
  <2> QED BY <2>1, <2>2
<1>4. ASSUME NEW g \in Flights, End(g) PROVE FALSE
  <2>1. flights' = [flights EXCEPT ![g] = Idle] /\ session' = session
    BY <1>4 DEF End
  <2>2. Idle.at = "idle" /\ ~Idle.shown
    BY DEF Idle
  <2> QED BY <1>1, <2>1, <2>2 DEF Dispatched, Shown, Stored
<1>5. CASE SessionEvent
  <2>1. PICK S : EventEffect(S)
    BY <1>1, <1>5, EventShape
  <2>2. flights'[f].at = flights[f].at /\ flights'[f].shown = flights[f].shown
    BY <1>1, <2>1, AbortKeeps DEF EventEffect
  <2> QED BY <2>2 DEF Dispatched, Shown, Stored
<1>6. CASE UNCHANGED laneVars
  BY <1>6 DEF laneVars, Dispatched, Shown, Stored
<1> QED
  BY <1>2, <1>3, <1>4, <1>5, <1>6 DEF LanesNext

\* What a paid call must carry, and what the visitor may be shown.
OwnsInput(f) ==
  /\ ReplyOf(flights[f].seen) = ReplyRev(session)
  /\ flights[f].lane = "understanding" => flights[f].seen = InputRev(session)
  /\ flights[f].sel = session.sel /\ ~session.barred /\ ~session.paused

Standing(f) == ReplyOf(flights[f].seen) = ReplyRev(session) /\ ~session.barred

\* A run that calls a provider in this step does so with the present input.
LEMMA DispatchStep ==
  ASSUME LanesInv, LanesAssumption, [LanesNext]_laneVars, NEW f \in Flights, Dispatched(f)
  PROVE  OwnsInput(f)
<1>1. StepEffect(f) /\ Unchanged(f)
  BY OtherSteps DEF StepEffect, Consumable
<1>2. \/ flights[f].asked = flights[f].seen
      \/ flights[f].lane = "reaction" /\ ReplyOf(flights[f].asked) = ReplyOf(flights[f].seen)
  BY <1>1 DEF LanesInv, AskedForSeen, StepEffect
<1> QED BY <1>1, <1>2 DEF Unchanged, ReplyRev, OwnsInput

\* A run whose output is shown or stored in this step read the present input.
LEMMA OutputStep ==
  ASSUME LanesInv, LanesAssumption, [LanesNext]_laneVars, NEW f \in Flights,
         Shown(f) \/ Stored(f)
  PROVE  Standing(f)
<1>1. /\ StepEffect(f) /\ Working(f)
      /\ SameInput(flights[f].lane, flights[f].seen, session)
  BY OtherSteps DEF StepEffect
<1>2. ReplyOf(flights[f].seen) = ReplyRev(session)
  BY <1>1 DEF SameInput, ReplyRev
<1>3. flights[f].seen[2] = session.gate
  BY <1>2 DEF ReplyOf, ReplyRev, InputRev
<1> QED BY <1>1, <1>2, <1>3 DEF LanesInv, GateOpen, Standing

\* A paid call always carries the turns, the consent and the choice that the
\* session has at that moment, whatever happened while it was admitted.
THEOREM CallsOwnInput == LanesSpec => DispatchOwnsInput
<1>1. LanesInv /\ [LanesNext]_laneVars
      => [\A f \in Flights : Dispatched(f) => OwnsInput(f)]_laneVars
  BY DispatchStep, LanesAssumption
<1> QED
  BY <1>1, InvHolds, PTL DEF LanesSpec, DispatchOwnsInput, OwnsInput

\* Nothing the visitor sees or the session keeps comes from input that was
\* since withdrawn, revised or added to.
THEOREM OutputOwnsInput == LanesSpec => NothingStale
<1>1. LanesInv /\ [LanesNext]_laneVars
      => [\A f \in Flights : Shown(f) \/ Stored(f) => Standing(f)]_laneVars
  BY OutputStep, LanesAssumption
<1> QED
  BY <1>1, InvHolds, PTL DEF LanesSpec, NothingStale, Standing
-----------------------------------------------------------------------------
(* Nothing is paid for twice.  Two more facts are needed: a call's gate      *)
(* never compares a revision the session has yet to reach, and a run that is *)
(* not stopped, and was admitted with the present revision, works on input   *)
(* its lane has no result for.                                               *)

AskedBefore ==
  \A f \in Flights : Working(f) =>
    /\ flights[f].asked[1] <= session.input
    /\ flights[f].asked[2] <= session.gate
    /\ flights[f].asked[3] <= session.ident

NotAnswered ==
  \A f \in Flights :
    Working(f) /\ ~Stopped(f) /\ flights[f].asked = InputRev(session)
    => ~Settled(session, flights[f].lane)

RunInv == LanesInv /\ AskedBefore /\ NotAnswered

\* The three parts of a well-typed revision, and of the session's, are numbers.
LEMMA RevisionParts ==
  ASSUME LanesTypeOK
  PROVE  /\ \A f \in Flights :
              /\ flights[f].asked[1] \in Int /\ flights[f].asked[2] \in Int
              /\ flights[f].asked[3] \in Int
         /\ session.input \in Nat /\ session.gate \in Nat /\ session.ident \in Nat
         /\ InputRev(session)[1] = session.input /\ InputRev(session)[2] = session.gate
         /\ InputRev(session)[3] = session.ident
BY DEF LanesTypeOK, FlightRecord, SessionRecord, Revision, InputRev

\* A session event leaves the revision and the results as they were, or makes
\* the revision one that no run was admitted with before.
LEMMA EventRises ==
  ASSUME LanesTypeOK, SessionEvent
  PROVE  /\ session.input <= session'.input /\ session.gate <= session'.gate
         /\ session.ident <= session'.ident
         /\ \/ /\ session'.input = session.input /\ session'.gate = session.gate
               /\ session'.ident = session.ident
               /\ session'.answered = session.answered /\ session'.und = session.und
            \/ session.input # session'.input \/ session.gate # session'.gate
            \/ session.ident # session'.ident
<1>1. /\ session \in SessionRecord
      /\ session.input \in Nat /\ session.gate \in Nat /\ session.ident \in Nat
  BY RevisionParts DEF LanesTypeOK
<1>2. CASE \E upload \in BOOLEAN : AddInput(upload)
  BY <1>1, <1>2 DEF AddInput, SessionRecord
<1>3. CASE WithdrawInput
  BY <1>1, <1>3 DEF WithdrawInput, SessionRecord
<1>4. CASE \E granted \in BOOLEAN : ReviseConsent(granted)
  BY <1>1, <1>4 DEF ReviseConsent, SessionRecord
<1>5. CASE Verify
  BY <1>1, <1>5 DEF Verify, SessionRecord
<1>6. CASE ChangeAddress
  BY <1>1, <1>6 DEF ChangeAddress, SessionRecord
<1>7. CASE \E c \in Selections : ChangeSettings(c)
  BY <1>1, <1>7 DEF ChangeSettings, SessionRecord
<1>8. CASE \E p \in BOOLEAN : SetPaused(p)
  BY <1>1, <1>8 DEF SetPaused, SessionRecord
<1> QED
  BY <1>2, <1>3, <1>4, <1>5, <1>6, <1>7, <1>8 DEF SessionEvent

\* A step of a run gives its own lane a result, if any, and then either ends or
\* has a draft only; it does so only while it is not stopped.
LEMMA StepResults ==
  ASSUME LanesTypeOK, NEW f \in Flights, FlightStep(f)
  PROVE  /\ session'.input = session.input /\ session'.gate = session.gate
         /\ session'.ident = session.ident
         /\ \A lane \in Lanes :
              \/ ~Settled(session, lane) => ~Settled(session', lane)
              \/ /\ lane = flights[f].lane /\ ~Stopped(f)
                 /\ flights'[f].at = "ended" \/ ~Settled(session', lane)
<1>0. session \in SessionRecord /\ flights \in [Flights -> FlightRecord]
  BY DEF LanesTypeOK
<1>1. CASE Admit(f) \/ Dispatch(f) \/ Refuse(f) \/ Show(f) \/ Compatibility(f) \/ Expire(f)
  BY <1>1 DEF Admit, Dispatch, Refuse, Show, Compatibility, Expire
<1>2. CASE PublishReply(f)
  <2>1. /\ session' = [session EXCEPT !.answered = InputRev(session)]
        /\ flights[f].lane = "reaction" /\ ~Stopped(f)
    BY <1>2 DEF PublishReply
  <2>2. flights'[f].at = "ended"
    BY <1>2, EndedRun DEF PublishReply, Returns
  <2>3. /\ session'.input = session.input /\ session'.gate = session.gate
        /\ session'.ident = session.ident /\ session'.und = session.und
    BY <1>0, <2>1 DEF SessionRecord
  <2> QED BY <2>1, <2>2, <2>3 DEF Settled, Lanes, InputRev
<1>3. CASE PublishUnderstanding(f)
  <2>0. flights[f].lane = "understanding" /\ ~Stopped(f)
    BY <1>3 DEF PublishUnderstanding
  <2>1. CASE ~Current(f)
    BY <1>3, <2>1 DEF PublishUnderstanding
  <2>2. CASE Current(f)
    <3> DEFINE u == [rev |-> flights[f].seen, draft |-> flights[f].draft]
    <3>1. session' = [session EXCEPT !.und = u]
      BY <1>3, <2>2 DEF PublishUnderstanding
    <3>2. u.draft = flights[f].draft
      OBVIOUS
    <3> HIDE DEF u
    <3>3. /\ session'.input = session.input /\ session'.gate = session.gate
          /\ session'.ident = session.ident /\ session'.answered = session.answered
          /\ session'.und = u
      BY <1>0, <3>1 DEF SessionRecord
    <3>4. CASE flights[f].draft
      BY <2>0, <3>2, <3>3, <3>4 DEF Settled, Lanes, InputRev
    <3>5. CASE ~flights[f].draft
      <4>1. flights'[f].at = "ended"
        BY <1>3, <2>2, <3>5, EndedRun DEF PublishUnderstanding, Returns
      <4> QED BY <2>0, <3>3, <4>1 DEF Settled, Lanes, InputRev
    <3> QED BY <3>4, <3>5
  <2> QED BY <2>1, <2>2
<1> QED
  BY <1>1, <1>2, <1>3 DEF FlightStep

\* Launching a run keeps what is known of results: a run that is due works on
\* input that has none.
LEMMA LaunchUnanswered ==
  ASSUME RunInv, LanesAssumption, NEW lane \in Lanes, NEW f \in Flights, Launch(lane, f)
  PROVE  AskedBefore' /\ NotAnswered'
<1> DEFINE A == AbortAll({slot[lane]})
<1>1. LanesTypeOK /\ AskedBefore /\ NotAnswered
  BY DEF RunInv, LanesInv
<1>2. /\ Launched(lane).at \in {"admitting", "ended"} /\ Launched(lane).lane = lane
      /\ Launched(lane).at = "admitting" => Launched(lane).asked = InputRev(session)
  BY <1>1, LaunchedRun
<1>3. Launched(lane).at = "admitting" => ~Settled(session, lane)
  BY DEF Launched, Due, Idle
<1>4. /\ A \in [Flights -> FlightRecord]
      /\ \A g \in Flights :
           /\ A[g].at = flights[g].at /\ A[g].lane = flights[g].lane
           /\ A[g].asked = flights[g].asked
           /\ A[g].signal = "on" => flights[g].signal = "on"
  BY <1>1, AbortKeeps
<1> HIDE DEF A
<1>5. flights' = [A EXCEPT ![f] = Launched(lane)] /\ session' = session
  BY DEF Launch, A
<1>6. /\ flights'[f] = Launched(lane)
      /\ \A g \in Flights \ {f} : flights'[g] = A[g]
  BY <1>4, <1>5
<1>7. AskedBefore'
  <2>1. /\ InputRev(session)[1] <= session.input /\ InputRev(session)[2] <= session.gate
        /\ InputRev(session)[3] <= session.ident
    BY <1>1, RevisionParts
  <2> QED BY <1>1, <1>2, <1>4, <1>5, <1>6, <2>1 DEF AskedBefore, Working
<1>8. NotAnswered'
  BY <1>1, <1>2, <1>3, <1>4, <1>5, <1>6 DEF NotAnswered, Working, Stopped
<1> QED BY <1>7, <1>8

\* A step of a run keeps it: the only run whose lane it gives a result, and
\* that is not stopped, is that run itself.
LEMMA StepUnanswered ==
  ASSUME RunInv, LanesAssumption, NEW f \in Flights, FlightStep(f)
  PROVE  AskedBefore' /\ NotAnswered'
<1>1. LanesTypeOK /\ WantedOwns /\ AskedForSeen /\ AskedBefore /\ NotAnswered
  BY DEF RunInv, LanesInv
<1>2. StepEffect(f)
  BY <1>1, StepShape
<1>3. /\ session'.input = session.input /\ session'.gate = session.gate
      /\ session'.ident = session.ident
      /\ \A lane \in Lanes :
           \/ ~Settled(session, lane) => ~Settled(session', lane)
           \/ /\ lane = flights[f].lane /\ ~Stopped(f)
              /\ flights'[f].at = "ended" \/ ~Settled(session', lane)
  BY <1>1, StepResults
<1>4. InputRev(session') = InputRev(session)
  BY <1>3 DEF InputRev
<1>5. \A g \in Flights : flights[g].lane \in Lanes
  BY <1>1 DEF LanesTypeOK, FlightRecord
<1>6. AskedBefore'
  <2>1. /\ InputRev(session)[1] <= session.input /\ InputRev(session)[2] <= session.gate
        /\ InputRev(session)[3] <= session.ident
    BY <1>1, RevisionParts
  <2> QED BY <1>1, <1>2, <1>3, <2>1 DEF AskedBefore, StepEffect, Working
<1>7. ASSUME NEW g \in Flights, Working(g)', ~Stopped(g)', flights'[g].asked = InputRev(session')
      PROVE  ~Settled(session', flights'[g].lane)
  <2>1. CASE g = f
    <3>1. /\ Working(f) /\ ~Stopped(f) /\ flights'[f].lane = flights[f].lane
          /\ flights'[f].at # "ended"
      BY <1>2, <1>7, <2>1 DEF StepEffect, Working, Stopped
    <3>2. flights[f].asked = InputRev(session)
      <4>1. CASE flights'[f].asked = flights[f].asked
        BY <1>4, <1>7, <2>1, <4>1
      <4>2. CASE /\ SameInput(flights[f].lane, flights[f].seen, session)
                 /\ flights[f].lane = "understanding"
        <5>1. flights[f].seen = InputRev(session)
          BY <4>2 DEF SameInput
        <5> QED BY <1>1, <3>1, <4>2, <5>1 DEF AskedForSeen
      <4> QED BY <1>2, <3>1, <4>1, <4>2 DEF StepEffect
    <3>3. ~Settled(session, flights[f].lane)
      BY <1>1, <3>1, <3>2 DEF NotAnswered
    <3> QED BY <1>3, <1>5, <2>1, <3>1, <3>3
  <2>2. CASE g # f
    <3>1. flights'[g] = flights[g] /\ Working(g) /\ ~Stopped(g)
      BY <1>2, <1>7, <2>2 DEF StepEffect, Working, Stopped
    <3>2. ~Settled(session, flights[g].lane)
      BY <1>1, <1>4, <1>7, <3>1 DEF NotAnswered
    <3>3. ~(flights[g].lane = flights[f].lane /\ ~Stopped(f))
      <4>1. Owner(g)
        BY <1>1, <3>1 DEF WantedOwns, Live, Working, Stopped, Aborted
      <4>2. ~Stopped(f) => Owner(f)
        BY <1>1, <1>2 DEF WantedOwns, Live, Working, Stopped, Aborted, StepEffect
      <4> QED BY <2>2, <4>1, <4>2 DEF Owner
    <3> QED BY <1>3, <1>5, <3>1, <3>2, <3>3
  <2> QED BY <2>1, <2>2
<1>8. NotAnswered'
  BY <1>7 DEF NotAnswered
<1> QED BY <1>6, <1>8

\* A run that ends, and a step that changes nothing, keep it.
LEMMA EndUnanswered ==
  ASSUME RunInv, NEW f \in Flights, End(f)
  PROVE  AskedBefore' /\ NotAnswered'
<1>1. /\ flights \in [Flights -> FlightRecord] /\ AskedBefore /\ NotAnswered
  BY DEF RunInv, LanesInv, LanesTypeOK
<1>2. /\ session' = session /\ flights'[f].at = "idle"
      /\ \A g \in Flights \ {f} : flights'[g] = flights[g]
  BY <1>1 DEF End, Idle
<1> QED BY <1>1, <1>2 DEF AskedBefore, NotAnswered, Working, Stopped

\* A session event keeps it: what it changes, it puts under a new revision.
LEMMA EventUnanswered ==
  ASSUME RunInv, LanesAssumption, SessionEvent
  PROVE  AskedBefore' /\ NotAnswered'
<1>1. LanesTypeOK /\ AskedBefore /\ NotAnswered /\ LanesTypeOK'
  BY EventKeeps DEF RunInv, LanesInv
<1>2. PICK S : EventEffect(S)
  BY <1>1, EventShape
<1>3. \A f \in Flights :
        /\ flights'[f].at = flights[f].at /\ flights'[f].lane = flights[f].lane
        /\ flights'[f].asked = flights[f].asked
        /\ flights'[f].signal = "on" => flights[f].signal = "on"
  BY <1>1, <1>2, AbortKeeps DEF EventEffect
<1>4. /\ session.input <= session'.input /\ session.gate <= session'.gate
      /\ session.ident <= session'.ident
      /\ \/ /\ session'.input = session.input /\ session'.gate = session.gate
            /\ session'.ident = session.ident
            /\ session'.answered = session.answered /\ session'.und = session.und
         \/ session.input # session'.input \/ session.gate # session'.gate
         \/ session.ident # session'.ident
  BY <1>1, EventRises
<1>5. /\ session'.input \in Nat /\ session'.gate \in Nat /\ session'.ident \in Nat
      /\ InputRev(session')[1] = session'.input /\ InputRev(session')[2] = session'.gate
      /\ InputRev(session')[3] = session'.ident
  BY <1>1 DEF LanesTypeOK, SessionRecord, InputRev
<1>6. AskedBefore'
  BY <1>1, <1>3, <1>4, <1>5, RevisionParts DEF AskedBefore, Working
<1>7. ASSUME NEW f \in Flights, Working(f)', ~Stopped(f)', flights'[f].asked = InputRev(session')
      PROVE  ~Settled(session', flights'[f].lane)
  <2>1. /\ Working(f) /\ ~Stopped(f) /\ flights[f].asked = InputRev(session')
        /\ flights[f].asked[1] <= session.input /\ flights[f].asked[2] <= session.gate
        /\ flights[f].asked[3] <= session.ident
    BY <1>1, <1>3, <1>7 DEF AskedBefore, Working, Stopped
  <2>2. /\ session'.input = session.input /\ session'.gate = session.gate
        /\ session'.ident = session.ident
    BY <1>1, <1>4, <1>5, <2>1, RevisionParts
  <2>3. /\ InputRev(session') = InputRev(session)
        /\ session'.answered = session.answered /\ session'.und = session.und
    BY <1>4, <2>2 DEF InputRev
  <2>4. ~Settled(session, flights[f].lane)
    BY <1>1, <2>1, <2>3 DEF NotAnswered
  <2> QED BY <1>3, <2>3, <2>4 DEF Settled
<1>8. NotAnswered'
  BY <1>7 DEF NotAnswered
<1> QED BY <1>6, <1>8

\* Every step keeps the invariant about results.
LEMMA RunInvKept ==
  ASSUME RunInv, LanesAssumption, [LanesNext]_laneVars
  PROVE  RunInv'
<1>1. LanesInv'
  BY NextKeeps DEF RunInv
<1>2. CASE UNCHANGED laneVars
  BY <1>1, <1>2 DEF RunInv, laneVars, AskedBefore, NotAnswered, Working, Stopped, Settled, InputRev
<1>3. CASE LanesNext
  BY <1>1, <1>3, LaunchUnanswered, StepUnanswered, EndUnanswered, EventUnanswered
  DEF LanesNext, RunInv
<1> QED BY <1>2, <1>3

\* A run that calls a provider in this step has a lane without a result.
LEMMA DispatchOnce ==
  ASSUME RunInv, LanesAssumption, [LanesNext]_laneVars, NEW f \in Flights, Dispatched(f)
  PROVE  ~Settled(session, flights[f].lane)
<1>1. StepEffect(f) /\ Consumable(f)
  BY OtherSteps DEF StepEffect, RunInv
<1>2. Working(f) /\ ~Stopped(f) /\ flights[f].asked = InputRev(session)
  BY <1>1 DEF StepEffect, Consumable, Unchanged
<1> QED BY <1>2 DEF RunInv, NotAnswered

\* The invariant about results holds at the start.
LEMMA RunInvInit == ASSUME LanesInit, LanesAssumption PROVE RunInv
<1>1. \A f \in Flights : ~Working(f)
  BY DEF LanesInit, Idle, Working
<1> QED BY <1>1, InitHolds DEF RunInv, AskedBefore, NotAnswered

\* No provider is called for a reply or a final assessment the session has,
\* whichever runs were displaced, revived or late.
THEOREM PaidForOnce == LanesSpec => AnsweredOnce
<1>1. LanesInit => RunInv
  BY RunInvInit, LanesAssumption
<1>2. RunInv /\ [LanesNext]_laneVars => RunInv'
  BY RunInvKept, LanesAssumption
<1>3. RunInv /\ [LanesNext]_laneVars
      => [\A f \in Flights : Dispatched(f) => ~Settled(session, flights[f].lane)]_laneVars
  BY DispatchOnce, LanesAssumption
<1> QED
  BY <1>1, <1>2, <1>3, PTL DEF LanesSpec, AnsweredOnce
-----------------------------------------------------------------------------
(* The scheduler of LaneJobs.  The invariant ties the three places that know *)
(* of a run: the run itself, the entry of its lane, and the lane's job.  And *)
(* a handler that has yet to acknowledge waits for every run that is left    *)
(* from before its gate.                                                     *)

WorkKey ==
  (Revision \cup ((Nat \cup {-1}) \X (Nat \cup {-1}))) \X (Selections \cup {NoSelection})

JobRecord ==
  [at : {"none", "due", "running"}, flight : Flights \cup {NoFlight}, work : WorkKey,
   wake : BOOLEAN]

TodoRecord ==
  [why : {"invalidation", "withdrawal", "settings"}, waits : SUBSET Flights,
   gate : Nat, id : Nat]

JobsTypeOK == LanesTypeOK /\ jobs \in [Lanes -> JobRecord] /\ todo \in SUBSET TodoRecord

RunsAwaited ==
  /\ \A f \in Flights : Live(f) =>
       /\ jobs[flights[f].lane].at = "running" /\ jobs[flights[f].lane].flight = f
       /\ slot[flights[f].lane] = f
  /\ \A lane \in Lanes :
       /\ jobs[lane].at = "running" =>
            /\ jobs[lane].flight \in Flights /\ Live(jobs[lane].flight)
            /\ flights[jobs[lane].flight].lane = lane
       /\ jobs[lane].at # "running" => slot[lane] = NoFlight

Waited ==
  \A t \in todo :
    /\ t.gate <= session.gate
    /\ t.why \in {"invalidation", "withdrawal"} =>
         \A f \in Flights : Live(f) => f \in t.waits \/ flights[f].seen[2] >= t.gate

JobsInv == JobsTypeOK /\ RunsAwaited /\ Waited

\* An empty job is well-typed, and so is what a lane would work on.
LEMMA JobTyped ==
  ASSUME LanesTypeOK
  PROVE  /\ NoJob \in JobRecord /\ NoJob.at = "none"
         /\ \A lane \in Lanes : LaneKey(session, lane) \in WorkKey
<1>1. NoRevision \in Revision
  BY DEF NoRevision, Revision
<1>2. NoJob \in JobRecord /\ NoJob.at = "none"
  BY <1>1 DEF NoJob, NoWork, WorkKey, JobRecord
<1>3. ReplyRev(session) \in (Nat \cup {-1}) \X (Nat \cup {-1})
  BY DEF ReplyRev, ReplyOf, InputRev, LanesTypeOK, SessionRecord
<1>4. InputRev(session) \in Revision /\ session.sel \in Selections
  BY RevisionOfSession DEF LanesTypeOK, SessionRecord
<1>5. \A lane \in Lanes : LaneKey(session, lane) \in WorkKey
  BY <1>3, <1>4 DEF LaneKey, WorkKey
<1> QED BY <1>2, <1>5

\* The jobs of js run what the jobs of now run.
SameRuns(js) ==
  /\ js \in [Lanes -> JobRecord]
  /\ \A lane \in Lanes :
       /\ jobs[lane].at = "running" => js[lane].at = "running" /\ js[lane].flight = jobs[lane].flight
       /\ jobs[lane].at # "running" => js[lane].at # "running"

\* Scheduling starts no second job in a lane and forgets none.
LEMMA ScheduledRuns ==
  ASSUME JobsTypeOK, NEW S, NEW wake \in BOOLEAN
  PROVE  SameRuns(Scheduled(jobs, S, wake))
<1>1. NoJob \in JobRecord /\ jobs \in [Lanes -> JobRecord]
  BY JobTyped DEF JobsTypeOK
<1> DEFINE due == [NoJob EXCEPT !.at = "due"]
           woken(l) == [jobs[l] EXCEPT !.wake = @ \/ wake]
<1>2. due \in JobRecord /\ due.at = "due"
  BY <1>1 DEF JobRecord
<1>3. ASSUME NEW l \in Lanes
      PROVE  woken(l) \in JobRecord /\ woken(l).at = jobs[l].at /\ woken(l).flight = jobs[l].flight
  <2> DEFINE w == jobs[l].wake \/ wake
  <2>1. jobs[l] \in JobRecord
    BY <1>1
  <2>2. w \in BOOLEAN
    BY DEF w
  <2>3. woken(l) = [jobs[l] EXCEPT !.wake = w]
    BY <2>1 DEF JobRecord
  <2> HIDE DEF w, woken
  <2> QED BY <2>1, <2>2, <2>3 DEF JobRecord
<1>4. ASSUME NEW l \in Lanes
      PROVE  Scheduled(jobs, S, wake)[l] =
               IF l \notin S THEN jobs[l] ELSE IF jobs[l].at = "none" THEN due ELSE woken(l)
  BY DEF Scheduled
<1>5. Scheduled(jobs, S, wake) = [l \in Lanes |-> Scheduled(jobs, S, wake)[l]]
  BY DEF Scheduled
<1> HIDE DEF due, woken
<1>6. \A l \in Lanes : Scheduled(jobs, S, wake)[l] \in JobRecord
  BY <1>1, <1>2, <1>3, <1>4
<1>7. Scheduled(jobs, S, wake) \in [Lanes -> JobRecord]
  BY <1>5, <1>6
<1> QED BY <1>2, <1>3, <1>4, <1>7 DEF SameRuns

\* What leaves the runs alive in their lanes and the jobs with their runs keeps
\* the tie between them.
LEMMA TieKept ==
  ASSUME JobsInv, slot' = slot, SameRuns(jobs'),
         \A f \in Flights : (Live(f)' <=> Live(f)) /\ flights'[f].lane = flights[f].lane
  PROVE  RunsAwaited'
<1>1. /\ RunsAwaited
      /\ \A f \in Flights : flights[f].lane \in Lanes
  BY DEF JobsInv, JobsTypeOK, LanesTypeOK, FlightRecord
<1> QED BY <1>1 DEF RunsAwaited, SameRuns

\* A session event ends no run, and a new gate leaves those that wait below it.
LEMMA EventTies ==
  ASSUME JobsInv, LanesAssumption, SessionEvent, SameRuns(jobs')
  PROVE  /\ LanesTypeOK' /\ RunsAwaited'
         /\ session.gate <= session'.gate /\ session'.gate \in Nat /\ session.gate \in Nat
         /\ \A f \in Flights :
              (Live(f)' <=> Live(f)) /\ flights'[f].seen = flights[f].seen
<1>1. LanesTypeOK
  BY DEF JobsInv, JobsTypeOK
<1>2. PICK S : EventEffect(S)
  BY <1>1, EventShape
<1>3. /\ flights' \in [Flights -> FlightRecord]
      /\ \A f \in Flights :
           /\ flights'[f].at = flights[f].at /\ flights'[f].lane = flights[f].lane
           /\ flights'[f].seen = flights[f].seen
  BY <1>1, <1>2, AbortKeeps DEF EventEffect
<1>4. LanesTypeOK'
  BY <1>1, <1>2, <1>3 DEF EventEffect, LanesTypeOK
<1>5. RunsAwaited'
  BY <1>2, <1>3, TieKept DEF EventEffect, Live
<1>6. session.gate \in Nat
  BY <1>1 DEF LanesTypeOK, SessionRecord
<1> QED BY <1>2, <1>3, <1>4, <1>5, <1>6 DEF EventEffect, Live

\* A request whose handler awaits nothing keeps the invariant.
LEMMA RequestKeeps ==
  ASSUME JobsInv, LanesAssumption, SessionEvent, SameRuns(jobs'), todo' = todo
  PROVE  JobsInv'
<1>1. /\ LanesTypeOK' /\ RunsAwaited'
      /\ session.gate <= session'.gate /\ session'.gate \in Nat /\ session.gate \in Nat
      /\ \A f \in Flights :
           (Live(f)' <=> Live(f)) /\ flights'[f].seen = flights[f].seen
  BY EventTies
<1>2. todo \in SUBSET TodoRecord /\ Waited
  BY DEF JobsInv, JobsTypeOK
<1>3. Waited'
  BY <1>1, <1>2 DEF Waited, TodoRecord
<1> QED BY <1>1, <1>2, <1>3 DEF JobsInv, JobsTypeOK, SameRuns

\* A request whose handler awaits the runs it cancels keeps the invariant: they
\* are all the runs there are, since every run owns its lane.
LEMMA AwaitKeeps ==
  ASSUME JobsInv, LanesAssumption, SessionEvent, jobs' = jobs,
         NEW why \in {"invalidation", "withdrawal", "settings"},
         NEW waits \in SUBSET Flights, Await(why, waits),
         why # "settings" => waits = Cancelled
  PROVE  JobsInv'
<1> DEFINE n == [why |-> why, waits |-> waits, gate |-> session'.gate, id |-> events]
<1>1. SameRuns(jobs')
  BY DEF SameRuns, JobsInv, JobsTypeOK
<1>2. /\ LanesTypeOK' /\ RunsAwaited'
      /\ session.gate <= session'.gate /\ session'.gate \in Nat /\ session.gate \in Nat
      /\ \A f \in Flights :
           (Live(f)' <=> Live(f)) /\ flights'[f].seen = flights[f].seen
  BY <1>1, EventTies
<1>3. todo \in SUBSET TodoRecord /\ Waited /\ RunsAwaited /\ events \in Nat
  BY DEF JobsInv, JobsTypeOK, LanesTypeOK
<1>4. n \in TodoRecord /\ n.why = why /\ n.waits = waits /\ n.gate = session'.gate
  BY <1>2, <1>3 DEF TodoRecord
<1>5. todo' = todo \cup {n}
  BY DEF Await
<1> HIDE DEF n
<1>6. ASSUME NEW t \in todo'
      PROVE  /\ t.gate <= session'.gate
             /\ t.why \in {"invalidation", "withdrawal"} =>
                  \A f \in Flights : Live(f)' => f \in t.waits \/ flights'[f].seen[2] >= t.gate
  <2>1. CASE t \in todo
    BY <1>2, <1>3, <2>1 DEF Waited, TodoRecord
  <2>2. CASE t = n
    <3>1. why # "settings" => \A f \in Flights : Live(f) => f \in waits
      BY <1>3 DEF RunsAwaited, Cancelled, Owner
    <3> QED BY <1>2, <1>4, <2>2, <3>1
  <2> QED BY <1>5, <2>1, <2>2
<1>7. Waited'
  BY <1>6 DEF Waited
<1> QED BY <1>1, <1>2, <1>3, <1>4, <1>5, <1>7 DEF JobsInv, JobsTypeOK, SameRuns

\* What changes no run and no session keeps the invariant, if it forgets no job.
LEMMA QuietKeeps ==
  ASSUME JobsInv, UNCHANGED <<session, flights, slot, events>>,
         SameRuns(jobs'), todo' \subseteq todo
  PROVE  JobsInv'
<1>1. JobsTypeOK /\ Waited
  BY DEF JobsInv
<1>2. RunsAwaited'
  BY TieKept DEF Live
<1>3. Waited'
  BY <1>1 DEF Waited, Live
<1> QED BY <1>1, <1>2, <1>3 DEF JobsInv, JobsTypeOK, LanesTypeOK, SameRuns

\* A job that is due finds its lane empty, so that the run it starts is the
\* lane's, and younger than every gate.
LEMMA StartKeeps ==
  ASSUME JobsInv, LanesAssumption, NEW lane \in Lanes, StartRun(lane)
  PROVE  JobsInv'
<1>1. LanesTypeOK /\ RunsAwaited /\ Waited /\ JobsTypeOK
  BY DEF JobsInv, JobsTypeOK
<1> DEFINE f == CHOOSE g \in Spare : TRUE
           job == [NoJob EXCEPT !.at = "running", !.flight = f, !.work = LaneKey(session, lane)]
           A == AbortAll({slot[lane]})
<1>2. /\ f \in Spare /\ jobs[lane].at = "due" /\ Launch(lane, f)
      /\ jobs' = [jobs EXCEPT ![lane] = job] /\ todo' = todo
  BY DEF StartRun
<1>3. f \in Flights /\ ~Live(f)
  BY <1>2 DEF Spare
<1>4. job \in JobRecord /\ job.at = "running" /\ job.flight = f
  <2> HIDE DEF f
  <2> QED BY <1>1, <1>3, JobTyped DEF JobRecord
<1> HIDE DEF f, job
<1>5. /\ Launched(lane) \in FlightRecord /\ Launched(lane).at # "idle"
      /\ Launched(lane).lane = lane /\ Launched(lane).seen = InputRev(session)
  BY <1>1, LaunchedRun
<1>6. /\ A \in [Flights -> FlightRecord]
      /\ \A g \in Flights :
           /\ A[g].at = flights[g].at /\ A[g].lane = flights[g].lane
           /\ A[g].seen = flights[g].seen
  BY <1>1, AbortKeeps
<1> HIDE DEF A
<1>7. /\ flights' = [A EXCEPT ![f] = Launched(lane)] /\ slot' = [slot EXCEPT ![lane] = f]
      /\ session' = session /\ events' = events
  BY <1>2 DEF Launch, A
<1>8. /\ flights' \in [Flights -> FlightRecord] /\ flights'[f] = Launched(lane)
      /\ \A g \in Flights \ {f} : flights'[g] = A[g]
  BY <1>3, <1>5, <1>6, <1>7
<1>9. /\ slot \in [Lanes -> Flights \cup {NoFlight}] /\ jobs \in [Lanes -> JobRecord]
      /\ todo \in SUBSET TodoRecord /\ \A g \in Flights : flights[g].lane \in Lanes
  BY <1>1 DEF JobsTypeOK, LanesTypeOK, FlightRecord
<1>10. JobsTypeOK'
  BY <1>1, <1>2, <1>3, <1>4, <1>7, <1>8, <1>9 DEF JobsTypeOK, LanesTypeOK
<1>11. /\ slot'[lane] = f /\ jobs'[lane] = job
       /\ \A l \in Lanes \ {lane} : slot'[l] = slot[l] /\ jobs'[l] = jobs[l]
  BY <1>2, <1>7, <1>9
<1>12. RunsAwaited'
  <2>1. ASSUME NEW g \in Flights, Live(g)'
        PROVE  /\ jobs'[flights'[g].lane].at = "running" /\ jobs'[flights'[g].lane].flight = g
               /\ slot'[flights'[g].lane] = g
    <3>1. CASE g = f
      BY <1>4, <1>5, <1>8, <1>11, <3>1
    <3>2. CASE g # f
      <4>1. Live(g) /\ flights'[g].lane = flights[g].lane
        BY <1>6, <1>8, <2>1, <3>2 DEF Live
      <4>2. flights[g].lane # lane
        BY <1>1, <1>2, <4>1 DEF RunsAwaited
      <4> QED BY <1>1, <1>9, <1>11, <4>1, <4>2 DEF RunsAwaited
    <3> QED BY <3>1, <3>2
  <2>2. ASSUME NEW l \in Lanes
        PROVE  /\ jobs'[l].at = "running" =>
                    /\ jobs'[l].flight \in Flights /\ flights'[jobs'[l].flight].at # "idle"
                    /\ flights'[jobs'[l].flight].lane = l
               /\ jobs'[l].at # "running" => slot'[l] = NoFlight
    <3>1. CASE l = lane
      BY <1>3, <1>4, <1>5, <1>8, <1>11, <3>1
    <3>2. CASE l # lane
      <4>1. jobs'[l] = jobs[l] /\ slot'[l] = slot[l]
        BY <1>11, <3>2
      <4>2. ASSUME jobs[l].at = "running"
            PROVE  /\ jobs[l].flight \in Flights /\ flights'[jobs[l].flight].at # "idle"
                   /\ flights'[jobs[l].flight].lane = l
        <5>1. /\ jobs[l].flight \in Flights /\ flights[jobs[l].flight].at # "idle"
              /\ flights[jobs[l].flight].lane = l
          BY <1>1, <4>2 DEF RunsAwaited, Live
        <5>2. jobs[l].flight # f
          BY <1>3, <5>1 DEF Live
        <5> QED BY <1>6, <1>8, <5>1, <5>2
      <4> QED BY <1>1, <4>1, <4>2 DEF RunsAwaited
    <3> QED BY <3>1, <3>2
  <2> QED BY <2>1, <2>2 DEF RunsAwaited, Live
<1>13. Waited'
  <2>1. InputRev(session)[2] = session.gate /\ session.gate \in Nat
    BY <1>1, RevisionParts
  <2> QED BY <1>1, <1>2, <1>5, <1>6, <1>7, <1>8, <1>9, <2>1 DEF Waited, Live, TodoRecord
<1> QED BY <1>10, <1>12, <1>13 DEF JobsInv

\* A run that settles leaves its lane empty and its job without a run, and no
\* handler waits for it any more.
LEMMA CollectKeeps ==
  ASSUME JobsInv, LanesAssumption, NEW lane \in Lanes, Collect(lane)
  PROVE  JobsInv'
<1>1. LanesTypeOK /\ RunsAwaited /\ Waited /\ JobsTypeOK
  BY DEF JobsInv, JobsTypeOK
<1> DEFINE f == jobs[lane].flight
           job == IF Again(lane) THEN [NoJob EXCEPT !.at = "due"] ELSE NoJob
           left(t) == [t EXCEPT !.waits = @ \ {f}]
<1>2. /\ f \in Flights /\ flights[f].lane = lane /\ Live(f) /\ slot[lane] = f
  BY <1>1 DEF Collect, RunsAwaited
<1>3. /\ End(f) /\ jobs' = [jobs EXCEPT ![lane] = job] /\ todo' = {left(t) : t \in todo}
  BY DEF Collect
<1>4. job \in JobRecord /\ job.at # "running"
  BY <1>1, JobTyped DEF JobRecord
<1>5. ASSUME NEW t \in TodoRecord
      PROVE  /\ left(t) \in TodoRecord /\ left(t).why = t.why /\ left(t).gate = t.gate
             /\ left(t).waits = t.waits \ {f}
  BY DEF TodoRecord
<1> HIDE DEF f, job, left
<1>6. /\ flights \in [Flights -> FlightRecord] /\ slot \in [Lanes -> Flights \cup {NoFlight}]
      /\ jobs \in [Lanes -> JobRecord] /\ todo \in SUBSET TodoRecord
      /\ \A g \in Flights : flights[g].lane \in Lanes
  BY <1>1 DEF JobsTypeOK, LanesTypeOK, FlightRecord
<1>7. /\ flights' = [flights EXCEPT ![f] = Idle] /\ slot' = [slot EXCEPT ![lane] = NoFlight]
      /\ session' = session /\ events' = events
  BY <1>2, <1>3 DEF End, SlotLeft, Owner
<1>8. /\ flights' \in [Flights -> FlightRecord] /\ flights'[f].at = "idle"
      /\ \A g \in Flights \ {f} : flights'[g] = flights[g]
  <2>1. Idle.at = "idle"
    BY DEF Idle
  <2> QED BY <1>2, <1>6, <1>7, <2>1, IdleTyped
<1>9. JobsTypeOK'
  <2>1. LanesTypeOK'
    BY <1>1, <1>6, <1>7, <1>8 DEF LanesTypeOK
  <2>2. jobs' \in [Lanes -> JobRecord]
    BY <1>3, <1>4, <1>6
  <2>3. todo' \in SUBSET TodoRecord
    BY <1>3, <1>5, <1>6
  <2> QED BY <2>1, <2>2, <2>3 DEF JobsTypeOK
<1>10. /\ slot'[lane] = NoFlight /\ jobs'[lane] = job
       /\ \A l \in Lanes \ {lane} : slot'[l] = slot[l] /\ jobs'[l] = jobs[l]
  BY <1>3, <1>6, <1>7
<1>11. RunsAwaited'
  <2>1. ASSUME NEW g \in Flights, Live(g)'
        PROVE  /\ jobs'[flights'[g].lane].at = "running" /\ jobs'[flights'[g].lane].flight = g
               /\ slot'[flights'[g].lane] = g
    <3>1. g # f /\ Live(g) /\ flights'[g].lane = flights[g].lane
      BY <1>8, <2>1 DEF Live
    <3>2. flights[g].lane # lane
      BY <1>1, <1>2, <3>1 DEF RunsAwaited
    <3> QED BY <1>1, <1>6, <1>10, <3>1, <3>2 DEF RunsAwaited
  <2>2. ASSUME NEW l \in Lanes
        PROVE  /\ jobs'[l].at = "running" =>
                    /\ jobs'[l].flight \in Flights /\ flights'[jobs'[l].flight].at # "idle"
                    /\ flights'[jobs'[l].flight].lane = l
               /\ jobs'[l].at # "running" => slot'[l] = NoFlight
    <3>1. CASE l = lane
      BY <1>4, <1>10, <3>1
    <3>2. CASE l # lane
      <4>1. jobs'[l] = jobs[l] /\ slot'[l] = slot[l]
        BY <1>10, <3>2
      <4>2. ASSUME jobs[l].at = "running"
            PROVE  /\ jobs[l].flight \in Flights /\ flights'[jobs[l].flight].at # "idle"
                   /\ flights'[jobs[l].flight].lane = l
        BY <1>1, <1>2, <1>8, <3>2, <4>2 DEF RunsAwaited, Live
      <4> QED BY <1>1, <4>1, <4>2 DEF RunsAwaited
    <3> QED BY <3>1, <3>2
  <2> QED BY <2>1, <2>2 DEF RunsAwaited, Live
<1>12. Waited'
  <2>1. ASSUME NEW t \in todo
        PROVE  /\ left(t).gate <= session.gate
               /\ left(t).why \in {"invalidation", "withdrawal"} =>
                    \A g \in Flights : Live(g)' => g \in left(t).waits \/ flights'[g].seen[2] >= left(t).gate
    BY <1>1, <1>5, <1>6, <1>8, <2>1 DEF Waited, Live
  <2> QED BY <1>3, <1>7, <2>1 DEF Waited
<1> QED BY <1>9, <1>11, <1>12 DEF JobsInv

\* A step of a run between its awaits concerns neither jobs nor handlers.
LEMMA WorkKeeps ==
  ASSUME JobsInv, LanesAssumption, NEW f \in Flights, FlightWork(f)
  PROVE  JobsInv'
<1>1. LanesTypeOK /\ JobsTypeOK /\ Waited
  BY DEF JobsInv, JobsTypeOK
<1>2. /\ StepEffect(f) /\ jobs' = jobs /\ todo' = todo
  BY <1>1, StepShape DEF FlightWork
<1>3. /\ \A g \in Flights :
           /\ (Live(g)' <=> Live(g)) /\ flights'[g].lane = flights[g].lane
           /\ flights'[g].seen = flights[g].seen
      /\ slot' = slot /\ session'.gate = session.gate
  BY <1>2 DEF StepEffect, Live, Working
<1>4. LanesTypeOK'
  BY <1>1, <1>2 DEF StepEffect, LanesTypeOK
<1>5. SameRuns(jobs')
  BY <1>1, <1>2 DEF SameRuns, JobsTypeOK
<1>6. RunsAwaited'
  BY <1>3, <1>5, TieKept
<1>7. Waited'
  BY <1>1, <1>2, <1>3 DEF Waited
<1> QED BY <1>1, <1>2, <1>4, <1>6, <1>7 DEF JobsInv, JobsTypeOK

\* After a restart, and at the start, no run is left and no job.
LEMMA NothingRuns ==
  ASSUME LanesAssumption, session \in SessionRecord, events \in Nat,
         flights = [f \in Flights |-> Idle], slot = [l \in Lanes |-> NoFlight],
         jobs = [l \in Lanes |-> NoJob], todo = {}
  PROVE  JobsInv
<1>1. LanesTypeOK
  BY IdleTyped DEF LanesTypeOK
<1>2. NoJob \in JobRecord /\ NoJob.at = "none"
  BY <1>1, JobTyped
<1>3. \A f \in Flights : ~Live(f)
  BY DEF Live, Idle
<1> QED BY <1>1, <1>2, <1>3 DEF JobsInv, JobsTypeOK, RunsAwaited, Waited

\* The same of the state after a restart.
LEMMA RestartKeeps ==
  ASSUME JobsInv, LanesAssumption, Restart
  PROVE  JobsInv'
<1>1. session' \in SessionRecord /\ events' \in Nat
  BY DEF Restart, JobsInv, JobsTypeOK, LanesTypeOK
<1>2. /\ flights' = [f \in Flights |-> Idle] /\ slot' = [l \in Lanes |-> NoFlight]
      /\ jobs' = [l \in Lanes |-> NoJob] /\ todo' = {}
  BY DEF Restart
<1>3. LanesTypeOK'
  BY <1>1, <1>2, IdleTyped DEF LanesTypeOK
<1>4. NoJob \in JobRecord /\ NoJob.at = "none"
  BY JobTyped DEF JobsInv, JobsTypeOK
<1>5. \A f \in Flights : ~Live(f)'
  BY <1>2 DEF Live, Idle
<1> QED BY <1>2, <1>3, <1>4, <1>5 DEF JobsInv, JobsTypeOK, RunsAwaited, Waited

\* Every step of the scheduler keeps its invariant.
LEMMA JobsNextKeeps ==
  ASSUME JobsInv, LanesAssumption, [JobsNext]_jobVars
  PROVE  JobsInv'
<1>1. JobsTypeOK
  BY DEF JobsInv
<1>2. SameRuns(jobs)
  BY <1>1 DEF SameRuns, JobsTypeOK
<1>3. \A S : \A wake \in BOOLEAN : SameRuns(Scheduled(jobs, S, wake))
  BY <1>1, ScheduledRuns
<1>4. CASE NewInput \/ NewAddress \/ Pause \/ Resume
  <2>1. /\ SessionEvent /\ todo' = todo
        /\ jobs' = jobs \/ \E wake \in BOOLEAN : jobs' = Scheduled(jobs, Lanes, wake)
    BY <1>4 DEF NewInput, NewAddress, Pause, Resume, Schedule, SessionEvent
  <2>2. SameRuns(jobs')
    BY <1>2, <1>3, <2>1
  <2> QED BY <2>1, <2>2, RequestKeeps
<1>5. CASE Invalidate \/ WithdrawConsent \/ NewSettings
  <2>1. Cancelled \in SUBSET Flights
    BY DEF Cancelled
  <2>2. CASE Invalidate
    BY <2>1, <2>2, AwaitKeeps DEF Invalidate, SessionEvent
  <2>3. CASE WithdrawConsent
    BY <2>1, <2>3, AwaitKeeps DEF WithdrawConsent, SessionEvent
  <2>4. CASE NewSettings
    BY <2>4, AwaitKeeps DEF NewSettings, SessionEvent
  <2> QED BY <1>5, <2>2, <2>3, <2>4
<1>6. CASE Reschedule \/ Reconnect \/ Recover \/ \E t \in todo : Acknowledge(t)
  <2>1. /\ UNCHANGED <<session, flights, slot, events>> /\ todo' \subseteq todo
        /\ \/ jobs' = jobs
           \/ \E S \in SUBSET Lanes, wake \in BOOLEAN : jobs' = Scheduled(jobs, S, wake)
    BY <1>6 DEF Reschedule, Reconnect, Recover, Acknowledge, Schedule, Reconnected
  <2>2. SameRuns(jobs')
    BY <1>2, <1>3, <2>1
  <2> QED BY <2>1, <2>2, QuietKeeps
<1>7. CASE Restart
  BY <1>7, RestartKeeps
<1>8. ASSUME NEW lane \in Lanes, JobStep(lane) PROVE JobsInv'
  BY <1>8, StartKeeps, CollectKeeps DEF JobStep
<1>9. ASSUME NEW f \in Flights, FlightWork(f) PROVE JobsInv'
  BY <1>9, WorkKeeps
<1>10. CASE UNCHANGED jobVars
  BY <1>2, <1>10, QuietKeeps DEF jobVars
<1> QED
  BY <1>4, <1>5, <1>6, <1>7, <1>8, <1>9, <1>10 DEF JobsNext, Request

\* The scheduler's invariant holds in every behaviour.
LEMMA JobsInvHolds == JobsSpec => []JobsInv
<1>1. JobsInit => JobsInv
  <2>1. ASSUME JobsInit PROVE JobsInv
    <3>1. LanesTypeOK
      BY <2>1, InitHolds, LanesAssumption DEF JobsInit, LanesInv
    <3> QED BY <2>1, <3>1, NothingRuns, LanesAssumption DEF JobsInit, LanesInit, LanesTypeOK
  <2> QED BY <2>1
<1>2. JobsInv /\ [JobsNext]_jobVars => JobsInv'
  BY JobsNextKeeps, LanesAssumption
<1> QED
  BY <1>1, <1>2, PTL DEF JobsSpec

\* No run is ever on its own: its lane's job awaits it, and starts no other.
THEOREM RunsAreAwaited == JobsSpec => []EveryRunAwaited
<1>1. JobsInv => EveryRunAwaited
  BY DEF JobsInv, RunsAwaited, EveryRunAwaited
<1> QED
  BY <1>1, JobsInvHolds, PTL

\* A handler forgets what it has to acknowledge only by acknowledging it, when
\* the runs it awaits are gone, or in a restart.
LEMMA AcknowledgedOnly ==
  ASSUME JobsInv, LanesAssumption, [JobsNext]_jobVars,
         NEW t \in todo, t.id \notin {u.id : u \in todo'}
  PROVE  \/ t.waits = {} /\ flights' = flights
         \/ \A f \in Flights : flights'[f].at = "idle"
<1>1. todo \in SUBSET TodoRecord
  BY DEF JobsInv, JobsTypeOK
<1>2. ~(todo \subseteq todo')
  OBVIOUS
<1>3. CASE UNCHANGED jobVars
  BY <1>2, <1>3 DEF jobVars
<1>4. CASE Request
  <2>1. CASE Restart
    BY <2>1 DEF Restart, Idle
  <2>2. CASE Invalidate \/ WithdrawConsent \/ NewSettings
    BY <1>2, <2>2 DEF Invalidate, WithdrawConsent, NewSettings, Await
  <2>3. CASE NewInput \/ NewAddress \/ Pause \/ Resume \/ Reschedule \/ Reconnect
    BY <1>2, <2>3 DEF NewInput, NewAddress, Pause, Resume, Reschedule, Reconnect
  <2> QED BY <1>4, <2>1, <2>2, <2>3 DEF Request
<1>5. CASE Recover
  BY <1>2, <1>5 DEF Recover
<1>6. CASE \E u \in todo : Acknowledge(u)
  BY <1>6 DEF Acknowledge
<1>7. ASSUME NEW lane \in Lanes, JobStep(lane) PROVE FALSE
  <2>1. CASE StartRun(lane)
    BY <1>2, <2>1 DEF StartRun
  <2>2. CASE Collect(lane)
    <3> DEFINE u == [t EXCEPT !.waits = @ \ {jobs[lane].flight}]
    <3>1. u \in todo'
      BY <2>2 DEF Collect
    <3>2. u.id = t.id
      BY <1>1 DEF TodoRecord
    <3> QED BY <3>1, <3>2
  <2> QED BY <1>7, <2>1, <2>2 DEF JobStep
<1>8. CASE \E f \in Flights : FlightWork(f)
  BY <1>2, <1>8 DEF FlightWork
<1> QED
  BY <1>3, <1>4, <1>5, <1>6, <1>7, <1>8 DEF JobsNext

\* A withdrawal or a consent revision is acknowledged only when no run from
\* before it is left, whatever aborted that run.
THEOREM AcknowledgedWhenSettled == JobsSpec => SettledBeforeAcknowledged
<1> DEFINE Left(t) ==
      /\ t.why \in {"invalidation", "withdrawal"}
      /\ t.id \notin {u.id : u \in todo'}
      => \A f \in Flights : flights'[f].at # "idle" => flights'[f].seen[2] >= t.gate
<1>1. ASSUME JobsInv, [JobsNext]_jobVars, NEW t \in todo PROVE Left(t)
  BY <1>1, AcknowledgedOnly, LanesAssumption DEF JobsInv, Waited, Live
<1>2. JobsInv /\ [JobsNext]_jobVars => [\A t \in todo : Left(t)]_jobVars
  BY <1>1
<1> QED
  BY <1>2, JobsInvHolds, PTL DEF JobsSpec, SettledBeforeAcknowledged

\* Every step of the scheduler is a step of the lanes, or one that leaves them
\* alone, or a restart.
LEMMA JobsAreLanes ==
  ASSUME JobsInv, [JobsNext]_jobVars
  PROVE  [LanesNext]_laneVars \/ Restart
<1>1. CASE UNCHANGED jobVars
  BY <1>1 DEF jobVars, laneVars
<1>2. CASE Reschedule \/ Reconnect \/ Recover \/ \E t \in todo : Acknowledge(t)
  BY <1>2 DEF Reschedule, Reconnect, Recover, Acknowledge, laneVars
<1>3. CASE NewInput \/ NewAddress \/ Invalidate \/ WithdrawConsent \/ NewSettings \/ Pause \/ Resume
  <2>1. SessionEvent
    BY <1>3 DEF NewInput, NewAddress, Invalidate, WithdrawConsent, NewSettings, Pause, Resume,
       SessionEvent
  <2> QED BY <2>1 DEF LanesNext
<1>4. ASSUME NEW lane \in Lanes, JobStep(lane) PROVE LanesNext
  <2>1. CASE StartRun(lane)
    BY <2>1 DEF StartRun, Spare, LanesNext
  <2>2. CASE Collect(lane)
    BY <2>2 DEF Collect, JobsInv, RunsAwaited, LanesNext
  <2> QED BY <1>4, <2>1, <2>2 DEF JobStep
<1>5. CASE \E f \in Flights : FlightWork(f)
  BY <1>5 DEF FlightWork, LanesNext
<1> QED
  BY <1>1, <1>2, <1>3, <1>4, <1>5 DEF JobsNext, Request

\* A restart leaves no run, and so nothing to say of one.
LEMMA RestartQuiet ==
  ASSUME RunInv, LanesAssumption, Restart
  PROVE  /\ RunInv'
         /\ \A f \in Flights : ~Dispatched(f) /\ ~Shown(f) /\ ~Stored(f)
<1>1. /\ flights' = [f \in Flights |-> Idle] /\ slot' = [l \in Lanes |-> NoFlight]
      /\ session' = session /\ events' = events
  BY DEF Restart
<1>2. \A f \in Flights : flights'[f].at = "idle" /\ ~flights'[f].shown
  BY <1>1 DEF Idle
<1>3. LanesTypeOK'
  BY <1>1, IdleTyped DEF RunInv, LanesInv, LanesTypeOK
<1>4. RunInv'
  BY <1>2, <1>3 DEF RunInv, LanesInv, WantedOwns, AskedForSeen, GateOpen, AskedBefore,
     NotAnswered, Live, Working
<1> QED BY <1>1, <1>2, <1>4 DEF Dispatched, Shown, Stored

\* The lanes as the server schedules them, restarts included, keep what the
\* lanes promise to any caller: one wanted run, paid calls that own their input
\* and are made once, and no stale output.
THEOREM ScheduledLanesKeep ==
  JobsSpec => []SingleFlight /\ DispatchOwnsInput /\ AnsweredOnce /\ NothingStale
<1> DEFINE Step ==
      \A f \in Flights :
        /\ Dispatched(f) => OwnsInput(f) /\ ~Settled(session, flights[f].lane)
        /\ Shown(f) \/ Stored(f) => Standing(f)
<1>1. JobsInit => RunInv
  BY RunInvInit, LanesAssumption DEF JobsInit
<1>2. RunInv /\ JobsInv /\ [JobsNext]_jobVars => RunInv' /\ Step
  <2>1. ASSUME RunInv, JobsInv, [JobsNext]_jobVars PROVE RunInv' /\ Step
    <3>1. CASE [LanesNext]_laneVars
      <4>1. LanesInv
        BY <2>1 DEF RunInv
      <4>2. RunInv'
        BY <2>1, <3>1, RunInvKept, LanesAssumption
      <4>3. ASSUME NEW f \in Flights, Dispatched(f)
            PROVE  OwnsInput(f) /\ ~Settled(session, flights[f].lane)
        BY <2>1, <3>1, <4>1, <4>3, DispatchStep, DispatchOnce, LanesAssumption
      <4>4. ASSUME NEW f \in Flights, Shown(f) \/ Stored(f) PROVE Standing(f)
        BY <3>1, <4>1, <4>4, OutputStep, LanesAssumption
      <4> QED BY <4>2, <4>3, <4>4
    <3>2. CASE Restart
      BY <2>1, <3>2, RestartQuiet, LanesAssumption
    <3> QED BY <2>1, <3>1, <3>2, JobsAreLanes
  <2> QED BY <2>1
<1>3. RunInv => SingleFlight
  BY DEF RunInv, LanesInv, WantedOwns, Owner, SingleFlight
<1>4. Step =>
        /\ [\A f \in Flights : Dispatched(f) => OwnsInput(f)]_laneVars
        /\ [\A f \in Flights : Dispatched(f) => ~Settled(session, flights[f].lane)]_laneVars
        /\ [\A f \in Flights : Shown(f) \/ Stored(f) => Standing(f)]_laneVars
  OBVIOUS
<1> HIDE DEF Step
<1> QED
  BY <1>1, <1>2, <1>3, <1>4, JobsInvHolds, PTL
  DEF JobsSpec, DispatchOwnsInput, AnsweredOnce, NothingStale, OwnsInput, Standing
=============================================================================
