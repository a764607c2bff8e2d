--------------------------- MODULE ConceptsProofs ---------------------------
(***************************************************************************)
(* Proofs about Concepts, for any number of turns, renders, references and *)
(* other conversations, and any limits.                                    *)
(*                                                                         *)
(* The invariant is the types together with PendingFlown: a job that is    *)
(* pending in the durable intent is the job of the flight, planned for the *)
(* revision the flight took off with. Each action is shown to keep the     *)
(* types and to let a flight go on, end or start (StepFacts); the reducer  *)
(* lemmas say what an intent can have lost meanwhile (Later). For the      *)
(* artifacts it is extended by FlightBacked and Named: a flight that was   *)
(* not aborted rests on sources that stand.                                *)
(***************************************************************************)
EXTENDS Concepts, FiniteSetTheorems, SequenceTheorems, TLAPS

InputRevisions == Nat \X Nat \X Nat
Revisions == {<<>>} \cup (InputRevisions \X Nat \X Nat)

\* The records of a session, a job, an intent, a flight and a concept.
SessionRecord ==
  [turns : 0..MaxTurns, withdrawn : SUBSET Turns, consent : Nat, conversation : Nat, revoked : BOOLEAN,
   paused : BOOLEAN, choice : {0, 1},
   assessed : [rev : {<<>>} \cup InputRevisions, level : Nat]]

JobRecord ==
  [id : Jobs, rev : Revisions, sources : SUBSET Sources, wish : Nat, milestone : Nat,
   invalidation : Nat, versions : [Sources -> Nat], seen : [Refs -> Nat]]

IntentRecord ==
  [rev : Revisions, sources : SUBSET Sources, wish : [id : Nat, turn : Nat], model : Nat, armed : Nat,
   eligible : BOOLEAN, consented : BOOLEAN, consent : Nat, paused : BOOLEAN, invalidation : Nat,
   versions : [Sources -> Nat], attempted : SUBSET Revisions,
   last : JobRecord \cup {NoJob}, pending : JobRecord \cup {NoJob}]

FlightRecord ==
  [stage : {"planned", "evaluating", "wallet", "returning", "claimed", "consuming", "dispatched",
            "checking", "publishing"},
   job : JobRecord, input : InputRevisions, choice : {0, 1}, consent : Nat,
   aborted : BOOLEAN, again : BOOLEAN, read : Nat]

ConceptRecord ==
  [id : Jobs, deps : SUBSET Sources, seen : [Refs -> Nat],
   liked : BOOLEAN, archived : BOOLEAN, erased : BOOLEAN]

\* The types of the lane's state.
ConceptsTypeOK ==
  /\ session \in SessionRecord
  /\ offered \in SUBSET Refs /\ removals \in [Refs -> Nat]
  /\ concepts \in Seq(ConceptRecord)
  /\ intent \in IntentRecord /\ IsFiniteSet(intent.attempted)
  /\ flight \in FlightRecord \cup {NoFlight}
  /\ row \in [Jobs -> {"none", "claimed", "dispatched", "settled"}]
  /\ hold \in [Jobs -> {"none", "asked", "held", "lost"}]
  /\ hour \in [status : {"active", "ended"}, late : BOOLEAN]
  /\ events \in Nat

\* What happened to an intent since: nothing is forgotten that a job could rest on.
Later(i, n) ==
  /\ n.invalidation >= i.invalidation
  /\ n.invalidation = i.invalidation => n.consented = i.consented
  /\ \A k \in Sources :
       /\ n.versions[k] >= i.versions[k]
       /\ n.invalidation = i.invalidation /\ i.consented /\ n.versions[k] = i.versions[k] /\ k \in i.sources
          => k \in n.sources

-----------------------------------------------------------------------------

\* The bounds are numbers, and a job's identity is never that of a missing one.
LEMMA Numbers ==
  /\ MaxTurns \in Nat /\ MaxJobs \in Nat /\ PerSession \in Nat /\ PerDay \in Nat
  /\ Turns \subseteq Nat /\ Jobs \subseteq Nat /\ 0 \notin Jobs
BY ConceptsAssumption DEF Turns, Jobs

\* A record of a job is told from its absence.
LEMMA JobIsReal == ASSUME NEW j \in JobRecord PROVE j # NoJob /\ j.id \in Jobs /\ j.id \in Nat
<1>1. j.id \in Jobs
  BY DEF JobRecord
<1>2. NoJob.id = 0
  BY DEF NoJob
<1>3. QED BY <1>1, <1>2, Numbers

\* A record of a flight is told from its absence.
LEMMA FlightIsReal == ASSUME NEW f \in FlightRecord PROVE f # NoFlight
<1>1. f.stage # "none"
  BY DEF FlightRecord
<1>2. QED BY <1>1 DEF NoFlight

\* The revision of the input and the standing turns of a well-typed session.
LEMMA InputTyped ==
  ASSUME NEW s \in SessionRecord
  PROVE  /\ InputRev(s) \in InputRevisions
         /\ Active(s) \subseteq Turns
<1>1. IsFiniteSet(s.withdrawn)
  <2>1. s.withdrawn \subseteq 1..MaxTurns
    BY DEF SessionRecord, Turns
  <2>2. IsFiniteSet(1..MaxTurns)
    BY Numbers, FS_Interval
  <2>3. QED BY <2>1, <2>2, FS_Subset
<1>2. Cardinality(s.withdrawn) \in Nat
  BY <1>1, FS_CardinalityType
<1>3. InputRev(s) \in InputRevisions
  BY <1>2, ConceptsAssumption DEF InputRev, InputRevisions, SessionRecord
<1>4. Active(s) \subseteq Turns
  BY ConceptsAssumption DEF Active, Turns, SessionRecord
<1>5. QED BY <1>3, <1>4

\* The identities a render starts from are of concepts that are shown.
LEMMA ChosenShown ==
  ASSUME NEW cs \in Seq(ConceptRecord), NEW refs \in SUBSET Refs
  PROVE  /\ Chosen(cs, refs) \subseteq Jobs \cup Refs
         /\ \A k \in Chosen(cs, refs) \ refs : \E c \in DOMAIN cs : cs[c].id = k /\ ~cs[c].erased
<1> DEFINE there == {c \in DOMAIN cs : ~cs[c].erased}
<1>1. ASSUME NEW C, C \subseteq there
      PROVE  \A k \in Last(cs, C) : \E c \in there : cs[c].id = k
  BY <1>1 DEF Last
<1>2. \A k \in Chosen(cs, refs) \ refs : \E c \in there : cs[c].id = k
  <2> DEFINE kept == {c \in there : ~cs[c].archived}
             liked == {c \in kept : cs[c].liked}
  <2>1. Chosen(cs, refs) = refs \cup Last(cs, there \ kept) \cup Last(cs, IF liked = {} THEN kept ELSE liked)
    BY DEF Chosen
  <2>2. there \ kept \subseteq there /\ (IF liked = {} THEN kept ELSE liked) \subseteq there
    OBVIOUS
  <2> HIDE DEF there, kept, liked
  <2>3. QED BY <2>1, <2>2, <1>1
<1>3. \A c \in DOMAIN cs : cs[c] \in ConceptRecord
  OBVIOUS
<1>4. QED BY <1>2, <1>3 DEF ConceptRecord

\* An intent is later than itself.
LEMMA LaterSame == ASSUME NEW i \in IntentRecord PROVE Later(i, i)
BY DEF Later, IntentRecord

\* What one reducer loses, the next does not bring back.
LEMMA LaterTransitive ==
  ASSUME NEW i \in IntentRecord, NEW n \in IntentRecord, NEW o \in IntentRecord, Later(i, n), Later(n, o)
  PROVE  Later(i, o)
<1>1. i.invalidation \in Nat /\ n.invalidation \in Nat /\ o.invalidation \in Nat
  BY DEF IntentRecord
<1>2. \A k \in Sources : i.versions[k] \in Nat /\ n.versions[k] \in Nat /\ o.versions[k] \in Nat
  BY DEF IntentRecord
<1>3. o.invalidation >= i.invalidation
  BY <1>1 DEF Later
<1>4. o.invalidation = i.invalidation => n.invalidation = i.invalidation
  BY <1>1 DEF Later
<1>5. ASSUME NEW k \in Sources
      PROVE  /\ o.versions[k] >= i.versions[k]
             /\ o.versions[k] = i.versions[k] => n.versions[k] = i.versions[k]
  BY <1>2 DEF Later
<1>6. QED BY <1>3, <1>4, <1>5 DEF Later

\* The fields of an intent that a job or its flight is compared with.
SameJobs(i, n) == n.pending = i.pending /\ n.last = i.last /\ n.attempted = i.attempted

\* The intent i with revision r and sources S, and without what it lost.
Left(i, r, S) == Invalidated(i, [i EXCEPT !.rev = r, !.sources = S])

\* Sources that leave the intent have their versions raised; jobs and consent stay.
LEMMA LeftFacts ==
  ASSUME NEW i \in IntentRecord, NEW r \in Revisions, NEW S \in SUBSET Sources,
         NEW o, o = Left(i, r, S)
  PROVE  /\ o \in IntentRecord /\ SameJobs(i, o) /\ o.rev = r /\ o.sources = S
         /\ o.consented = i.consented /\ o.invalidation = i.invalidation
         /\ o.versions = [k \in Sources |-> IF k \in i.sources \ S THEN i.versions[k] + 1 ELSE i.versions[k]]
<1> DEFINE next == [i EXCEPT !.rev = r, !.sources = S]
           wish == IF i.wish.turn \in S THEN i.wish ELSE NoWish
           versions == [k \in Sources |-> IF k \in i.sources \ S THEN i.versions[k] + 1 ELSE i.versions[k]]
           n == [next EXCEPT !.wish = wish, !.versions = versions]
<1>1. next \in IntentRecord /\ next.wish = i.wish /\ next.versions = i.versions /\ next.sources = S
  BY DEF IntentRecord
<1>2. o = n
  BY <1>1 DEF Invalidated, Left
<1>3. wish \in [id : Nat, turn : Nat] /\ versions \in [Sources -> Nat]
  BY DEF IntentRecord, NoWish
<1> HIDE DEF wish, versions
<1>4. n \in IntentRecord
  BY <1>1, <1>3 DEF IntentRecord
<1>5. SameJobs(i, n) /\ n.rev = r /\ n.sources = S /\ n.consented = i.consented
      /\ n.invalidation = i.invalidation /\ n.versions = versions
  BY <1>1 DEF IntentRecord, SameJobs
<1>6. QED BY <1>2, <1>4, <1>5 DEF versions

\* A revision of consent raises the invalidation whenever coverage changes.
LEMMA ConsentRevisedFacts ==
  ASSUME NEW i \in IntentRecord, NEW covered \in BOOLEAN, NEW rev \in Nat
  PROVE  LET n == ConsentRevised(i, covered, rev)
         IN  n \in IntentRecord /\ SameJobs(i, n) /\ Later(i, n)
             /\ n.versions = i.versions /\ n.sources = i.sources /\ n.consented = covered
<1> DEFINE n == ConsentRevised(i, covered, rev)
<1>1. n \in IntentRecord
  <2> DEFINE changed == covered # i.consented
             wish == IF changed THEN NoWish ELSE i.wish
             inv == IF changed THEN i.invalidation + 1 ELSE i.invalidation
  <2>1. n = [i EXCEPT !.consented = covered, !.consent = rev, !.model = 0, !.wish = wish, !.invalidation = inv]
    BY DEF ConsentRevised, IntentRecord
  <2>2. wish \in [id : Nat, turn : Nat] /\ inv \in Nat
    BY DEF NoWish, IntentRecord
  <2> HIDE DEF n, wish, inv
  <2>3. QED BY <2>1, <2>2 DEF IntentRecord
<1>2. SameJobs(i, n) /\ n.versions = i.versions /\ n.sources = i.sources /\ n.consented = covered
      /\ n.invalidation = IF covered # i.consented THEN i.invalidation + 1 ELSE i.invalidation
  BY DEF ConsentRevised, IntentRecord, SameJobs
<1>3. Later(i, n)
  BY <1>2 DEF Later, IntentRecord
<1>4. QED BY <1>1, <1>2, <1>3

\* Synchronising leaves the intent with the session's revision and its jobs.
LEMMA SyncedFacts ==
  ASSUME NEW i \in IntentRecord, NEW s \in SessionRecord,
         NEW cs \in Seq(ConceptRecord), NEW refs \in SUBSET Refs
  PROVE  LET n == Synced(i, s, cs, refs)
         IN  n \in IntentRecord /\ SameJobs(i, n) /\ Later(i, n)
             /\ n.rev # <<>> /\ n.rev[1] = InputRev(s) /\ n.sources = Active(s) \cup Chosen(cs, refs)
<1> DEFINE consented == IF i.consented = s.revoked \/ i.consent # s.consent
                        THEN ConsentRevised(i, ~s.revoked, s.consent) ELSE i
           rev == <<InputRev(s), s.consent, consented.wish.id>>
           sources == Active(s) \cup Chosen(cs, refs)
           recorded == Invalidated(consented, [consented EXCEPT !.rev = rev, !.sources = sources])
           armed == IF s.assessed.rev = InputRev(s) THEN s.assessed.level ELSE 0
           n == [recorded EXCEPT !.paused = s.paused, !.armed = armed]
<1>1. s.revoked \in BOOLEAN /\ s.consent \in Nat /\ s.paused \in BOOLEAN /\ armed \in Nat
  BY DEF SessionRecord
<1>2. consented \in IntentRecord /\ SameJobs(i, consented) /\ Later(i, consented)
  BY <1>1, ConsentRevisedFacts, LaterSame DEF SameJobs
<1>3. sources \in SUBSET Sources
  BY InputTyped, ChosenShown DEF Sources
<1>4. rev \in Revisions /\ rev # <<>> /\ rev[1] = InputRev(s)
  BY <1>1, <1>2, InputTyped DEF Revisions, IntentRecord
<1>5. Synced(i, s, cs, refs) = n
  BY DEF Synced
<1> HIDE DEF consented, rev, sources, armed
<1>6. /\ recorded \in IntentRecord /\ SameJobs(consented, recorded) /\ recorded.rev = rev /\ recorded.sources = sources
      /\ recorded.consented = consented.consented /\ recorded.invalidation = consented.invalidation
      /\ recorded.versions = [k \in Sources |-> IF k \in consented.sources \ sources
                                                THEN consented.versions[k] + 1 ELSE consented.versions[k]]
  <2>1. recorded = Left(consented, rev, sources)
    BY DEF Left
  <2> HIDE DEF recorded
  <2>2. QED BY <1>2, <1>3, <1>4, <2>1, LeftFacts
<1> HIDE DEF recorded
<1>7. /\ n \in IntentRecord /\ SameJobs(recorded, n) /\ n.rev = rev /\ n.sources = sources
      /\ n.consented = recorded.consented /\ n.invalidation = recorded.invalidation /\ n.versions = recorded.versions
  <2>1. n \in IntentRecord
    BY <1>1, <1>6 DEF IntentRecord
  <2>2. /\ SameJobs(recorded, n) /\ n.rev = recorded.rev /\ n.sources = recorded.sources
        /\ n.consented = recorded.consented /\ n.invalidation = recorded.invalidation /\ n.versions = recorded.versions
    BY <1>6 DEF IntentRecord, SameJobs
  <2>3. QED BY <1>6, <2>1, <2>2
<1> HIDE DEF n
<1>8. Later(consented, n)
  <2>1. consented.invalidation \in Nat /\ \A k \in Sources : consented.versions[k] \in Nat
    BY <1>2 DEF IntentRecord
  <2>2. \A k \in Sources : n.versions[k] = IF k \in consented.sources \ sources
                                           THEN consented.versions[k] + 1 ELSE consented.versions[k]
    BY <1>6, <1>7
  <2>3. QED BY <1>6, <1>7, <2>1, <2>2 DEF Later
<1>9. Later(i, n) /\ SameJobs(i, n)
  BY <1>2, <1>6, <1>7, <1>8, LaterTransitive DEF SameJobs
<1>10. QED BY <1>4, <1>5, <1>7, <1>9 DEF sources

\* n is i as far as a job or its flight is concerned.
Alike(i, n) ==
  /\ n \in IntentRecord /\ SameJobs(i, n) /\ n.rev = i.rev
  /\ n.versions = i.versions /\ n.sources = i.sources /\ n.consented = i.consented /\ n.invalidation = i.invalidation

\* Alike intents are later than one another.
LEMMA AlikeLater == ASSUME NEW i \in IntentRecord, NEW n, Alike(i, n) PROVE Later(i, n)
BY DEF Alike, Later, IntentRecord

\* A removed source has a new version and is no longer among the sources.
LEMMA RemovedFacts ==
  ASSUME NEW i \in IntentRecord, NEW k \in Sources, NEW n, n = SourceRemoved(i, k)
  PROVE  /\ n \in IntentRecord /\ SameJobs(i, n) /\ Later(i, n) /\ n.rev = i.rev
         /\ n.sources = i.sources \ {k} /\ n.consented = i.consented /\ n.invalidation = i.invalidation
         /\ k \in i.sources => n.versions[k] > i.versions[k]
<1> DEFINE S == i.sources \ {k}
<1>1. i.rev \in Revisions /\ S \in SUBSET Sources
  BY DEF IntentRecord
<1>2. [i EXCEPT !.sources = @ \ {k}] = [i EXCEPT !.rev = i.rev, !.sources = S]
  BY DEF IntentRecord
<1>3. n = Left(i, i.rev, S)
  BY <1>2 DEF SourceRemoved, Left
<1>4. /\ n \in IntentRecord /\ SameJobs(i, n) /\ n.rev = i.rev /\ n.sources = S
      /\ n.consented = i.consented /\ n.invalidation = i.invalidation
      /\ n.versions = [j \in Sources |-> IF j \in i.sources \ S THEN i.versions[j] + 1 ELSE i.versions[j]]
  <2> HIDE DEF S
  <2> QED BY <1>1, <1>3, LeftFacts
<1>5. i.invalidation \in Nat /\ \A j \in Sources : i.versions[j] \in Nat
  BY DEF IntentRecord
<1>6. \A j \in Sources : n.versions[j] = IF j \in i.sources \ S THEN i.versions[j] + 1 ELSE i.versions[j]
  BY <1>4
<1>7. Later(i, n)
  BY <1>4, <1>5, <1>6 DEF Later
<1>8. k \in i.sources => n.versions[k] > i.versions[k]
  BY <1>5, <1>6
<1>9. QED BY <1>4, <1>7, <1>8

\* A recorded wish changes nothing a job rests on.
LEMMA WishFacts ==
  ASSUME NEW i \in IntentRecord, NEW id \in Nat, NEW t \in Nat
  PROVE  Alike(i, IntentRecorded(i, id, t))
BY DEF Alike, IntentRecorded, IntentRecord, SameJobs

\* A person's turn changes nothing a job rests on.
LEMMA PersonTurnFacts ==
  ASSUME NEW i \in IntentRecord, NEW t \in Nat
  PROVE  Alike(i, PersonTurn(i, t))
BY DEF Alike, PersonTurn, IntentRecord, SameJobs

\* Neither does the end of eligibility, a milestone reached, or its return.
LEMMA EligibleFacts ==
  ASSUME NEW i \in IntentRecord
  PROVE  /\ Alike(i, ConversationEnded(i))
         /\ Alike(i, [i EXCEPT !.model = 0])
         /\ Alike(i, [i EXCEPT !.eligible = TRUE])
<1>1. Alike(i, [i EXCEPT !.model = 0])
  BY DEF Alike, IntentRecord, SameJobs
<1>2. Alike(i, [i EXCEPT !.eligible = TRUE])
  BY DEF Alike, IntentRecord, SameJobs
<1>3. Alike(i, ConversationEnded(i))
  BY DEF Alike, ConversationEnded, IntentRecord, SameJobs
<1>4. QED BY <1>1, <1>2, <1>3

\* A job given up leaves everything else of the intent.
LEMMA ClearedFacts ==
  ASSUME NEW i \in IntentRecord, NEW n, n = [i EXCEPT !.pending = NoJob]
  PROVE  /\ n \in IntentRecord /\ Later(i, n) /\ n.pending = NoJob /\ n.attempted = i.attempted
         /\ n.rev = i.rev /\ n.versions = i.versions /\ n.sources = i.sources
         /\ n.consented = i.consented /\ n.invalidation = i.invalidation
BY DEF Later, IntentRecord

\* A requested job is new, and is planned from the intent as it stands.
LEMMA RequestedFacts ==
  ASSUME ConceptsTypeOK, NEW i \in IntentRecord, IsFiniteSet(i.attempted), i.rev \notin i.attempted,
         JobsSoFar(i) # Jobs, NEW n, n = Requested(i)
  PROVE  /\ n \in IntentRecord /\ Later(i, n) /\ IsFiniteSet(n.attempted)
         /\ n.pending \in JobRecord
         /\ n.pending.id = MaxTurns + Cardinality(n.attempted)
         /\ Cardinality(n.attempted) = Cardinality(i.attempted) + 1
         /\ n.pending.rev = i.rev /\ n.pending.sources = i.sources /\ n.pending.versions = i.versions
         /\ n.pending.invalidation = i.invalidation /\ n.pending.seen = removals
         /\ n.sources = i.sources /\ n.versions = i.versions /\ n.invalidation = i.invalidation
         /\ n.consented = i.consented
<1>1. Cardinality(i.attempted) \in Nat
  BY FS_CardinalityType
<1>2. MaxTurns + Cardinality(i.attempted) + 1 \in Jobs
  <2>0. \E j \in Jobs : ~(j <= MaxTurns + Cardinality(i.attempted))
    BY DEF JobsSoFar
  <2>1. PICK j \in Jobs : j > MaxTurns + Cardinality(i.attempted)
    BY <1>1, <2>0, Numbers
  <2>2. QED BY <1>1, <2>1, Numbers DEF Jobs
<1>3. Job(i) \in JobRecord
  BY <1>2 DEF Job, JobRecord, IntentRecord, ConceptsTypeOK
<1>4. IsFiniteSet(i.attempted \cup {i.rev}) /\ Cardinality(i.attempted \cup {i.rev}) = Cardinality(i.attempted) + 1
  BY FS_AddElement
<1>5. n.pending = Job(i) /\ n.attempted = i.attempted \cup {i.rev} /\ n.sources = i.sources /\ n.versions = i.versions
      /\ n.invalidation = i.invalidation /\ n.consented = i.consented
  BY DEF Requested, IntentRecord
<1>6. n \in IntentRecord
  <2> DEFINE job == Job(i)
  <2>1. n = [i EXCEPT !.pending = job, !.last = job, !.attempted = i.attempted \cup {i.rev}]
    BY DEF Requested, IntentRecord
  <2> HIDE DEF job
  <2>2. job \in JobRecord
    BY <1>3 DEF job
  <2>3. i.attempted \cup {i.rev} \in SUBSET Revisions
    BY DEF IntentRecord
  <2> DEFINE tried == i.attempted \cup {i.rev}
  <2> HIDE DEF tried
  <2>4. tried \in SUBSET Revisions
    BY <2>3 DEF tried
  <2>5. n = [i EXCEPT !.pending = job, !.last = job, !.attempted = tried]
    BY <2>1 DEF tried
  <2>6. QED BY <2>2, <2>4, <2>5 DEF IntentRecord
<1>7. Later(i, n)
  BY <1>5 DEF Later, IntentRecord
<1>8. /\ Job(i).id = MaxTurns + Cardinality(i.attempted) + 1 /\ Job(i).rev = i.rev /\ Job(i).sources = i.sources
      /\ Job(i).versions = i.versions /\ Job(i).invalidation = i.invalidation /\ Job(i).seen = removals
  BY DEF Job
<1>9. QED BY <1>1, <1>3, <1>4, <1>5, <1>6, <1>7, <1>8, Numbers

-----------------------------------------------------------------------------
(* What a step does to the flight *)

\* The pending job is the one that flies, and flies over the input it was planned for.
PendingFlown ==
  /\ intent.pending # NoJob => ~Idle /\ flight.job = intent.pending
  /\ ~Idle => flight.job.rev[1] = flight.input

\* The flight, if there is one, goes on with its job.
GoesOn ==
  /\ intent'.attempted = intent.attempted
  /\ intent'.pending \in {intent.pending, NoJob}
  /\ Idle => flight' = NoFlight
  /\ ~Idle => flight' \in FlightRecord /\ flight'.job = flight.job /\ flight'.input = flight.input

\* The flight ends and its job is no longer pending.
Ends == intent'.attempted = intent.attempted /\ intent'.pending = NoJob /\ flight' = NoFlight

\* A flight starts with the job that is now pending.
Starts ==
  /\ flight' \in FlightRecord /\ flight'.stage = "planned"
  /\ intent'.pending = flight'.job /\ flight'.job.rev[1] = flight'.input
  /\ flight'.job.id = MaxTurns + Cardinality(intent'.attempted)
  /\ Cardinality(intent'.attempted) = Cardinality(intent.attempted) + 1
  /\ flight'.job.sources = intent'.sources /\ flight'.job.versions = intent'.versions
  /\ flight'.job.invalidation = intent'.invalidation /\ intent'.consented /\ flight'.job.seen = removals

IntentTyped == intent' \in IntentRecord /\ IsFiniteSet(intent'.attempted) /\ Later(intent, intent')

\* A run ends the last flight, and starts at most one with its own job.
LEMMA RunFacts ==
  ASSUME ConceptsTypeOK, NEW i \in IntentRecord, i.attempted = intent.attempted, i.pending = NoJob, Later(intent, i),
         NEW s \in SessionRecord, NEW cs \in Seq(ConceptRecord), NEW refs \in SUBSET Refs, NEW trigger,
         Run(i, s, cs, refs, trigger)
  PROVE  IntentTyped /\ (Ends \/ Starts)
<1> DEFINE synced == Synced(i, s, cs, refs)
           starts == Due(synced, trigger) /\ JobsSoFar(synced) # Jobs
           n == Requested(synced)
<1>1. synced \in IntentRecord /\ SameJobs(i, synced) /\ Later(i, synced) /\ synced.rev[1] = InputRev(s)
  BY SyncedFacts
<1>2. intent \in IntentRecord /\ IsFiniteSet(intent.attempted)
  BY DEF ConceptsTypeOK
<1>3. Later(intent, synced) /\ IsFiniteSet(synced.attempted) /\ synced.attempted = intent.attempted
  BY <1>1, <1>2, LaterTransitive DEF SameJobs
<1>4. CASE ~starts
  <2>1. intent' \in {synced, i} /\ flight' = NoFlight
    BY <1>4 DEF Run
  <2>2. synced.pending = NoJob
    BY <1>1 DEF SameJobs
  <2> HIDE DEF synced
  <2>3. QED BY <1>1, <1>2, <1>3, <2>1, <2>2 DEF IntentTyped, Ends
<1>5. CASE starts
  <2>1. intent' = n /\ flight' = Takeoff(n, s)
    BY <1>5 DEF Run
  <2>2. synced.rev \notin synced.attempted /\ synced.consented /\ JobsSoFar(synced) # Jobs
    BY <1>5 DEF Due
  <2> HIDE DEF synced
  <2>3. /\ n \in IntentRecord /\ Later(synced, n) /\ IsFiniteSet(n.attempted)
        /\ n.pending \in JobRecord
        /\ n.pending.id = MaxTurns + Cardinality(n.attempted)
        /\ Cardinality(n.attempted) = Cardinality(synced.attempted) + 1
        /\ n.pending.rev = synced.rev /\ n.pending.sources = synced.sources /\ n.pending.versions = synced.versions
        /\ n.pending.invalidation = synced.invalidation /\ n.pending.seen = removals
        /\ n.sources = synced.sources /\ n.versions = synced.versions /\ n.invalidation = synced.invalidation
        /\ n.consented = synced.consented
    BY <1>1, <1>3, <2>2, RequestedFacts
  <2> HIDE DEF n
  <2>4. Later(intent, n)
    BY <1>1, <1>2, <1>3, <2>3, LaterTransitive
  <2>5. InputRev(s) \in InputRevisions /\ s.choice \in {0, 1} /\ s.consent \in Nat
    BY InputTyped DEF SessionRecord
  <2>6. flight' \in FlightRecord /\ flight'.stage = "planned" /\ flight'.job = n.pending /\ flight'.input = InputRev(s)
    BY <2>1, <2>3, <2>5 DEF Takeoff, FlightRecord
  <2>7. QED BY <1>1, <1>3, <2>1, <2>2, <2>3, <2>4, <2>6 DEF IntentTyped, Starts
<1>6. QED BY <1>4, <1>5

\* Scheduling leaves a flight that is under way as it is, or starts one.
LEMMA ScheduleFacts ==
  ASSUME ConceptsTypeOK, PendingFlown, NEW i \in IntentRecord, SameJobs(intent, i), Later(intent, i),
         NEW s \in SessionRecord, NEW cs \in Seq(ConceptRecord), NEW refs \in SUBSET Refs, NEW trigger,
         Schedule(i, s, cs, refs, trigger)
  PROVE  IntentTyped /\ (GoesOn \/ Starts)
<1>1. CASE Idle
  <2>1. Run(i, s, cs, refs, trigger) /\ i.attempted = intent.attempted /\ i.pending = NoJob
    BY <1>1 DEF Schedule, PendingFlown, SameJobs
  <2>2. IntentTyped /\ (Ends \/ Starts)
    BY <2>1, RunFacts
  <2>3. QED BY <1>1, <2>2 DEF Ends, GoesOn
<1>2. CASE ~Idle
  <2>1. intent' = i /\ flight' = flight /\ flight \in FlightRecord
    BY <1>2 DEF Schedule, ConceptsTypeOK, Idle
  <2>2. QED BY <1>2, <2>1 DEF IntentTyped, GoesOn, SameJobs, ConceptsTypeOK
<1>3. QED BY <1>1, <1>2

\* The end of a flight, whose job is cleared if it is still pending.
LEMMA EndedFacts ==
  ASSUME ConceptsTypeOK, PendingFlown, ~Idle, Ended
  PROVE  IntentTyped /\ (Ends \/ Starts)
<1> DEFINE i == IF intent.pending # NoJob /\ intent.pending.id = flight.job.id
                THEN [intent EXCEPT !.pending = NoJob] ELSE intent
<1>1. intent \in IntentRecord /\ IsFiniteSet(intent.attempted) /\ session \in SessionRecord
      /\ concepts \in Seq(ConceptRecord) /\ offered \in SUBSET Refs
  BY DEF ConceptsTypeOK
<1>2. i \in IntentRecord /\ Later(intent, i) /\ i.pending = NoJob /\ i.attempted = intent.attempted
  BY <1>1, ClearedFacts, LaterSame DEF PendingFlown
<1>3. \/ Run(i, session, concepts, offered, "progress")
      \/ intent' = i /\ flight' = NoFlight
  BY DEF Ended
<1> HIDE DEF i
<1>4. CASE Run(i, session, concepts, offered, "progress")
  BY <1>1, <1>2, <1>4, RunFacts
<1>5. CASE intent' = i /\ flight' = NoFlight
  BY <1>1, <1>2, <1>5 DEF IntentTyped, Ends
<1>6. QED BY <1>3, <1>4, <1>5

\* A warning may abort a flight and changes nothing else of it.
LEMMA WarnedFacts ==
  ASSUME ConceptsTypeOK, NEW i, NEW s, NEW cs, NEW refs, NEW f, f = Warned(i, s, cs, refs)
  PROVE  /\ Idle => f = NoFlight
         /\ ~Idle => f \in FlightRecord /\ f.job = flight.job /\ f.input = flight.input
                     /\ f.stage = flight.stage
<1>1. CASE Idle
  BY <1>1 DEF Warned, Idle
<1>2. CASE ~Idle
  <2>1. flight \in FlightRecord
    BY <1>2 DEF ConceptsTypeOK, Idle
  <2> DEFINE a == \/ flight.aborted \/ ~Stands(Synced(i, s, cs, refs), flight.job)
                  \/ Unadmitted /\ s.consent # flight.consent
  <2>2. a \in BOOLEAN
    OBVIOUS
  <2>3. f = [flight EXCEPT !.aborted = a]
    BY <1>2 DEF Warned
  <2> HIDE DEF a
  <2>4. QED BY <1>2, <2>1, <2>2, <2>3 DEF FlightRecord
<1>3. QED BY <1>1, <1>2

-----------------------------------------------------------------------------
(* The steps *)

\* The three parts of the types that a step may touch.
AccountsTyped ==
  /\ row' \in [Jobs -> {"none", "claimed", "dispatched", "settled"}]
  /\ hold' \in [Jobs -> {"none", "asked", "held", "lost"}]

VisitTyped ==
  /\ session' \in SessionRecord
  /\ offered' \in SUBSET Refs /\ removals' \in [Refs -> Nat]
  /\ hour' \in [status : {"active", "ended"}, late : BOOLEAN]
  /\ events' \in Nat

ConceptsTyped == concepts' \in Seq(ConceptRecord)

\* What every step keeps.
StepFacts == AccountsTyped /\ VisitTyped /\ ConceptsTyped /\ IntentTyped /\ (GoesOn \/ Ends \/ Starts)

\* Steps that touch no books keep them well typed.
LEMMA AccountsSame == ASSUME ConceptsTypeOK, UNCHANGED accounts PROVE AccountsTyped
BY DEF ConceptsTypeOK, AccountsTyped, accounts

\* The hour that closes is well typed.
LEMMA ClosingTyped == ASSUME ConceptsTypeOK PROVE Closing \in [status : {"active", "ended"}, late : BOOLEAN]
BY DEF ConceptsTypeOK, Closing

\* Erased concepts are still concepts.
LEMMA EraseTyped == ASSUME ConceptsTypeOK, NEW C, Erase(C) PROVE ConceptsTyped
<1>1. concepts \in Seq(ConceptRecord) /\ DOMAIN concepts = 1..Len(concepts) /\ Len(concepts) \in Nat
  BY LenProperties DEF ConceptsTypeOK
<1>2. \A c \in 1..Len(concepts) :
        (IF c \in C THEN [concepts[c] EXCEPT !.erased = TRUE] ELSE concepts[c]) \in ConceptRecord
  <2>1. \A c \in 1..Len(concepts) : concepts[c] \in ConceptRecord
    BY <1>1, ElementOfSeq
  <2>2. QED BY <2>1 DEF ConceptRecord
<1>3. concepts' \in [1..Len(concepts) -> ConceptRecord]
  BY <1>1, <1>2 DEF Erase
<1>4. QED BY <1>1, <1>3, SeqDef DEF ConceptsTyped

\* A person's or the host's step that leaves the concepts and the books.
LEMMA VisitMoves ==
  ASSUME ConceptsTypeOK, Happens, session' \in SessionRecord,
         UNCHANGED <<accounts, concepts, offered, removals, hour>>
  PROVE  AccountsTyped /\ VisitTyped /\ ConceptsTyped
<1>1. AccountsTyped
  BY AccountsSame
<1>2. VisitTyped
  BY DEF Happens, VisitTyped, ConceptsTypeOK
<1>3. ConceptsTyped
  BY DEF ConceptsTyped, ConceptsTypeOK
<1>4. QED BY <1>1, <1>2, <1>3

\* A flight whose intent is the same goes on.
LEMMA FliesOn == ASSUME ConceptsTypeOK, UNCHANGED <<intent, flight>> PROVE IntentTyped /\ GoesOn
<1>1. intent \in IntentRecord /\ IsFiniteSet(intent.attempted)
  BY DEF ConceptsTypeOK
<1>2. ~Idle => flight \in FlightRecord
  BY DEF ConceptsTypeOK, Idle
<1>3. QED BY <1>1, <1>2, LaterSame DEF IntentTyped, GoesOn, Idle

\* A turn that is recorded synchronises the intent and schedules.
LEMMA RecordTurnStep == ASSUME ConceptsTypeOK, PendingFlown, RecordTurn PROVE StepFacts
<1> DEFINE s == [session EXCEPT !.turns = @ + 1]
           n == Synced(intent, s, concepts, offered)
           i == PersonTurn(n, s.turns)
<1>1. session \in SessionRecord /\ intent \in IntentRecord /\ concepts \in Seq(ConceptRecord) /\ offered \in SUBSET Refs
  BY DEF ConceptsTypeOK
<1>2. session' = s /\ session.turns < MaxTurns
      /\ (IF s.revoked THEN UNCHANGED <<intent, flight>> ELSE Schedule(i, s, concepts, offered, "progress"))
  BY DEF RecordTurn
<1>3. s \in SessionRecord /\ s.turns \in Nat
  <2>1. session.turns \in 0..MaxTurns /\ session.turns + 1 \in 0..MaxTurns
    BY <1>1, <1>2, Numbers DEF SessionRecord
  <2>2. QED BY SMTT(30), <1>1, <2>1, Numbers DEF SessionRecord
<1>4. AccountsTyped /\ VisitTyped /\ ConceptsTyped
  <2>1. Happens /\ UNCHANGED <<accounts, concepts, offered, removals, hour>>
    BY DEF RecordTurn
  <2>2. session' \in SessionRecord
    BY <1>2, <1>3
  <2>3. QED BY <2>1, <2>2, VisitMoves
<1> HIDE DEF s
<1>5. n \in IntentRecord /\ SameJobs(intent, n) /\ Later(intent, n)
  BY <1>1, <1>3, SyncedFacts
<1> HIDE DEF n
<1>6. Alike(n, i)
  BY <1>3, <1>5, PersonTurnFacts
<1> HIDE DEF i
<1>7. i \in IntentRecord /\ SameJobs(intent, i) /\ Later(intent, i)
  BY <1>1, <1>5, <1>6, AlikeLater, LaterTransitive DEF Alike, SameJobs
<1>8. IntentTyped /\ (GoesOn \/ Starts)
  BY <1>1, <1>2, <1>3, <1>7, ScheduleFacts, FliesOn
<1>9. QED BY <1>4, <1>8 DEF StepFacts

\* An assessment that is recorded may arm a milestone.
LEMMA UnderstoodStep ==
  ASSUME ConceptsTypeOK, PendingFlown, NEW level \in Levels, NEW heard \in BOOLEAN, Understood(level, heard)
  PROVE  StepFacts
<1> DEFINE s == [session EXCEPT !.assessed = [rev |-> InputRev(session), level |-> level]]
           t == IF Active(s) = {} THEN 0 ELSE CHOOSE t \in Active(s) : \A u \in Active(s) : u <= t
           consumed == IF t # 0 /\ intent.model = t THEN [intent EXCEPT !.model = 0] ELSE intent
           hears == heard /\ t # 0 /\ intent.model = t
           first == Synced(consumed, s, concepts, offered)
           noted == IntentRecorded(first, t, t)
           wished == Synced(noted, s, concepts, offered)
<1>1. session \in SessionRecord /\ intent \in IntentRecord /\ concepts \in Seq(ConceptRecord) /\ offered \in SUBSET Refs
  BY DEF ConceptsTypeOK
<1>2. session' = s /\ Schedule(IF hears THEN wished ELSE consumed, s, concepts, offered, "progress")
  BY DEF Understood
<1>3. s \in SessionRecord
  <2>1. InputRev(session) \in InputRevisions /\ level \in Nat
    BY <1>1, InputTyped, ConceptsAssumption
  <2>2. QED BY <1>1, <2>1 DEF SessionRecord
<1>4. AccountsTyped /\ VisitTyped /\ ConceptsTyped
  <2>1. Happens /\ UNCHANGED <<accounts, concepts, offered, removals, hour>>
    BY DEF Understood
  <2>2. session' \in SessionRecord
    BY <1>2, <1>3
  <2>3. QED BY <2>1, <2>2, VisitMoves
<1>5. hears => t \in Nat
  BY <1>1 DEF IntentRecord
<1> HIDE DEF s, t
<1>6. consumed \in IntentRecord /\ SameJobs(intent, consumed) /\ Later(intent, consumed)
  BY ZenonT(60), <1>1, EligibleFacts, AlikeLater, LaterSame DEF Alike, SameJobs
<1> HIDE DEF consumed
<1>7. first \in IntentRecord /\ SameJobs(consumed, first) /\ Later(consumed, first)
  BY <1>1, <1>3, <1>6, SyncedFacts
<1> HIDE DEF first
<1>8. hears => Alike(first, noted)
  BY <1>5, <1>7, WishFacts
<1> HIDE DEF noted
<1>9. hears => wished \in IntentRecord /\ SameJobs(noted, wished) /\ Later(noted, wished)
  BY <1>1, <1>3, <1>8, SyncedFacts DEF Alike
<1> HIDE DEF wished
<1>10. hears => wished \in IntentRecord /\ SameJobs(intent, wished) /\ Later(intent, wished)
  <2>1. hears => Later(first, noted) /\ noted \in IntentRecord
    BY <1>7, <1>8, AlikeLater DEF Alike
  <2>2. hears => Later(intent, first)
    BY <1>1, <1>6, <1>7, LaterTransitive
  <2>3. hears => Later(intent, noted)
    BY <1>1, <1>7, <2>1, <2>2, LaterTransitive
  <2>4. QED BY <1>1, <1>6, <1>7, <1>8, <1>9, <2>1, <2>3, LaterTransitive DEF Alike, SameJobs
<1>11. IntentTyped /\ (GoesOn \/ Starts)
  <2> DEFINE i == IF hears THEN wished ELSE consumed
  <2>1. i \in IntentRecord /\ SameJobs(intent, i) /\ Later(intent, i)
    BY <1>6, <1>10
  <2> HIDE DEF i
  <2>2. Schedule(i, s, concepts, offered, "progress")
    BY <1>2 DEF i
  <2>3. QED BY <1>1, <1>3, <2>1, <2>2, ScheduleFacts
<1>12. QED BY <1>4, <1>11 DEF StepFacts

\* A request by hand plans a job at once or marks the flight to run again.
LEMMA AskStep == ASSUME ConceptsTypeOK, PendingFlown, NEW t \in Turns, Ask(t) PROVE StepFacts
<1> DEFINE n == Synced(intent, session, concepts, offered)
           i == [n EXCEPT !.eligible = TRUE]
           noted == IntentRecorded(i, MaxTurns + 1 + events, t)
           wished == Synced(noted, session, concepts, offered)
           again == intent.last # NoJob \/ \E c \in DOMAIN concepts : ~concepts[c].erased
           trigger == IF again THEN "manual" ELSE "progress"
<1>1. session \in SessionRecord /\ intent \in IntentRecord /\ concepts \in Seq(ConceptRecord) /\ offered \in SUBSET Refs
      /\ MaxTurns + 1 + events \in Nat /\ t \in Nat
  BY Numbers DEF ConceptsTypeOK
<1>2. Schedule(wished, session, concepts, offered, trigger)
  BY DEF Ask
<1>3. AccountsTyped /\ VisitTyped /\ ConceptsTyped
  <2>1. Happens /\ UNCHANGED <<accounts, concepts, session, offered, removals, hour>>
    BY DEF Ask
  <2>2. QED BY <1>1, <2>1, VisitMoves
<1> HIDE DEF trigger
<1>4. n \in IntentRecord /\ SameJobs(intent, n) /\ Later(intent, n)
  BY <1>1, SyncedFacts
<1> HIDE DEF n
<1>5. Alike(n, i)
  BY <1>4, EligibleFacts
<1> HIDE DEF i
<1>6. Alike(i, noted)
  <2>1. i \in IntentRecord
    BY <1>5 DEF Alike
  <2> DEFINE id == MaxTurns + 1 + events
  <2>2. id \in Nat /\ t \in Nat
    BY <1>1
  <2> HIDE DEF id
  <2>3. Alike(i, IntentRecorded(i, id, t))
    BY <2>1, <2>2, WishFacts
  <2>4. QED BY <2>3 DEF id
<1> HIDE DEF noted
<1>7. noted \in IntentRecord /\ SameJobs(intent, noted) /\ Later(intent, noted)
  BY <1>1, <1>4, <1>5, <1>6, AlikeLater, LaterTransitive DEF Alike, SameJobs
<1>8. wished \in IntentRecord /\ SameJobs(noted, wished) /\ Later(noted, wished)
  BY <1>1, <1>7, SyncedFacts
<1> HIDE DEF wished
<1>9. SameJobs(intent, wished) /\ Later(intent, wished)
  BY <1>1, <1>7, <1>8, LaterTransitive DEF SameJobs
<1>10. IntentTyped /\ (GoesOn \/ Starts)
  BY <1>1, <1>2, <1>8, <1>9, ScheduleFacts
<1>11. QED BY <1>3, <1>10 DEF StepFacts

\* A source taken back: its concepts are erased, the intent loses it, and a
\* flight is warned.
LEMMA WithdrawStep ==
  ASSUME ConceptsTypeOK, PendingFlown, NEW t \in Turns, NEW expired \in BOOLEAN, Withdraw(t, expired)
  PROVE  StepFacts
<1> DEFINE s == [session EXCEPT !.withdrawn = @ \cup {t}]
           i == SourceRemoved(intent, t)
           cleared == IF i.pending # NoJob /\ t \in i.pending.sources THEN [i EXCEPT !.pending = NoJob] ELSE i
           n == IF expired THEN ConversationEnded(cleared) ELSE cleared
<1>1. session \in SessionRecord /\ intent \in IntentRecord /\ IsFiniteSet(intent.attempted) /\ t \in Sources
  BY DEF ConceptsTypeOK, Sources
<1>2. Happens /\ session' = s /\ Erase(Resting(t)) /\ intent' = n /\ flight' = Warned(intent', s, concepts', offered)
      /\ UNCHANGED <<accounts, offered, removals, hour>>
  BY DEF Withdraw
<1>3. s \in SessionRecord
  BY <1>1 DEF SessionRecord
<1> HIDE DEF s
<1>4. VisitTyped
  BY <1>2, <1>3 DEF Happens, VisitTyped, ConceptsTypeOK
<1>5. AccountsTyped /\ ConceptsTyped
  BY <1>2, AccountsSame, EraseTyped
<1>6. i \in IntentRecord /\ SameJobs(intent, i) /\ Later(intent, i)
  BY <1>1, RemovedFacts
<1> HIDE DEF i
<1>7. cleared \in IntentRecord /\ Later(i, cleared) /\ cleared.attempted = i.attempted
      /\ cleared.pending \in {i.pending, NoJob}
  BY <1>6, ClearedFacts, LaterSame
<1> HIDE DEF cleared
<1>8. n \in IntentRecord /\ Later(cleared, n) /\ n.attempted = cleared.attempted /\ n.pending = cleared.pending
  <2>1. CASE expired
    <3> DEFINE o == ConversationEnded(cleared)
    <3>1. Alike(cleared, o)
      BY <1>7, EligibleFacts
    <3>2. n = o
      BY <2>1
    <3> HIDE DEF o, n
    <3>3. QED BY <1>7, <3>1, <3>2, AlikeLater DEF Alike, SameJobs
  <2>2. CASE ~expired
    BY <1>7, <2>2, LaterSame
  <2>3. QED BY <2>1, <2>2
<1> HIDE DEF n
<1>9. Later(intent, n) /\ n.attempted = intent.attempted /\ n.pending \in {intent.pending, NoJob}
  BY <1>1, <1>6, <1>7, <1>8, LaterTransitive DEF SameJobs
<1>10. IntentTyped /\ GoesOn
  BY <1>1, <1>2, <1>8, <1>9, WarnedFacts DEF IntentTyped, GoesOn
<1>11. QED BY <1>4, <1>5, <1>10 DEF StepFacts

\* A reference taken back by the host.
LEMMA RemoveReferenceStep ==
  ASSUME ConceptsTypeOK, PendingFlown, NEW r \in Refs, RemoveReference(r)
  PROVE  StepFacts
<1> DEFINE i == SourceRemoved(intent, r)
           n == IF i.pending # NoJob /\ r \in i.pending.sources THEN [i EXCEPT !.pending = NoJob] ELSE i
<1>1. intent \in IntentRecord /\ IsFiniteSet(intent.attempted) /\ r \in Sources
  BY DEF ConceptsTypeOK, Sources
<1>2. Happens /\ offered' = offered \ {r} /\ removals' = [removals EXCEPT ![r] = @ + 1] /\ Erase(Resting(r))
      /\ intent' = n /\ flight' = Warned(n, session, concepts', offered') /\ UNCHANGED <<accounts, session, hour>>
  BY DEF RemoveReference
<1>3. VisitTyped
  BY <1>2 DEF Happens, VisitTyped, ConceptsTypeOK
<1>4. AccountsTyped /\ ConceptsTyped
  BY <1>2, AccountsSame, EraseTyped
<1>5. i \in IntentRecord /\ SameJobs(intent, i) /\ Later(intent, i)
  BY <1>1, RemovedFacts
<1> HIDE DEF i
<1>6. n \in IntentRecord /\ Later(i, n) /\ n.attempted = i.attempted /\ n.pending \in {i.pending, NoJob}
  BY <1>5, ClearedFacts, LaterSame
<1> HIDE DEF n
<1>7. Later(intent, n) /\ n.attempted = intent.attempted /\ n.pending \in {intent.pending, NoJob}
  BY <1>1, <1>5, <1>6, LaterTransitive DEF SameJobs
<1>8. IntentTyped /\ GoesOn
  BY <1>1, <1>2, <1>6, <1>7, WarnedFacts DEF IntentTyped, GoesOn
<1>9. QED BY <1>3, <1>4, <1>8 DEF StepFacts

\* A revision of consent that covers the visuals.
LEMMA GrantStep ==
  ASSUME ConceptsTypeOK, PendingFlown, NEW unchanged \in BOOLEAN, Grant(unchanged)
  PROVE  StepFacts
<1> DEFINE kept == unchanged /\ ~session.revoked
           s == [session EXCEPT !.consent = @ + 1, !.revoked = FALSE,
                                !.conversation = IF kept THEN @ ELSE session.consent + 1]
<1>1. session \in SessionRecord /\ intent \in IntentRecord /\ IsFiniteSet(intent.attempted)
      /\ concepts \in Seq(ConceptRecord) /\ offered \in SUBSET Refs
  BY DEF ConceptsTypeOK
<1>2. /\ Happens /\ session' = s /\ UNCHANGED <<accounts, concepts, offered, removals, hour>>
      /\ IF Idle THEN Run(intent, s, concepts, offered, "progress")
         ELSE flight' = [Warned(intent, s, concepts, offered) EXCEPT !.again = TRUE] /\ UNCHANGED intent
  BY DEF Grant
<1>3. s \in SessionRecord
  <2> DEFINE conversation == IF kept THEN session.conversation ELSE session.consent + 1
  <2>1. conversation \in Nat /\ session.consent + 1 \in Nat
    BY <1>1 DEF SessionRecord
  <2>2. s = [session EXCEPT !.consent = session.consent + 1, !.revoked = FALSE, !.conversation = conversation]
    BY <1>1 DEF SessionRecord
  <2> HIDE DEF s, conversation
  <2>3. QED BY <1>1, <2>1, <2>2 DEF SessionRecord
<1> HIDE DEF s
<1>4. AccountsTyped /\ VisitTyped /\ ConceptsTyped
  BY <1>2, <1>3, VisitMoves
<1>5. CASE Idle
  <2>1. intent.pending = NoJob
    BY <1>5 DEF PendingFlown
  <2>2. IntentTyped /\ (Ends \/ Starts)
    BY <1>1, <1>2, <1>3, <1>5, <2>1, RunFacts, LaterSame
  <2>3. QED BY <1>4, <2>2 DEF StepFacts
<1>6. CASE ~Idle
  <2> DEFINE f == Warned(intent, s, concepts, offered)
  <2>1. f \in FlightRecord /\ f.job = flight.job /\ f.input = flight.input
    BY <1>6, WarnedFacts
  <2> HIDE DEF f
  <2>2. flight' = [f EXCEPT !.again = TRUE] /\ intent' = intent
    BY <1>2, <1>6 DEF f
  <2>3. flight' \in FlightRecord /\ flight'.job = flight.job /\ flight'.input = flight.input
    BY <2>1, <2>2 DEF FlightRecord
  <2>4. IntentTyped /\ GoesOn
    BY <1>1, <1>6, <2>2, <2>3, LaterSame DEF IntentTyped, GoesOn
  <2>5. QED BY <1>4, <2>4 DEF StepFacts
<1>7. QED BY <1>5, <1>6

\* A withdrawal of consent.
LEMMA RevokeStep == ASSUME ConceptsTypeOK, PendingFlown, Revoke PROVE StepFacts
<1> DEFINE s == [session EXCEPT !.consent = @ + 1, !.revoked = TRUE, !.conversation = session.consent + 1]
           c == ConsentRevised(intent, FALSE, s.consent)
           i == ConversationEnded(c)
           n == [i EXCEPT !.pending = NoJob, !.sources = @ \cap Turns]
<1>1. session \in SessionRecord /\ intent \in IntentRecord /\ IsFiniteSet(intent.attempted)
  BY DEF ConceptsTypeOK
<1>2. Happens /\ session' = s /\ Erase(DOMAIN concepts) /\ intent' = n /\ flight' = Warned(intent', s, concepts', offered)
      /\ UNCHANGED <<accounts, offered, removals, hour>>
  BY DEF Revoke
<1>3. s \in SessionRecord /\ s.consent \in Nat
  <2> DEFINE next == session.consent + 1
  <2>1. next \in Nat /\ s = [session EXCEPT !.consent = next, !.revoked = TRUE, !.conversation = next]
    BY <1>1 DEF SessionRecord
  <2> HIDE DEF s, next
  <2>2. QED BY <1>1, <2>1 DEF SessionRecord
<1> HIDE DEF s
<1>4. VisitTyped
  BY <1>2, <1>3 DEF Happens, VisitTyped, ConceptsTypeOK
<1>5. AccountsTyped /\ ConceptsTyped
  BY <1>2, AccountsSame, EraseTyped
<1>6. c \in IntentRecord /\ SameJobs(intent, c) /\ Later(intent, c) /\ c.consented = FALSE
  BY <1>1, <1>3, ConsentRevisedFacts
<1> HIDE DEF c
<1>7. Alike(c, i)
  BY <1>6, EligibleFacts
<1> HIDE DEF i
<1>8. /\ n \in IntentRecord /\ n.pending = NoJob /\ n.attempted = i.attempted /\ n.versions = i.versions
      /\ n.invalidation = i.invalidation /\ n.consented = i.consented
  BY <1>7 DEF Alike, IntentRecord
<1>9. Later(c, n)
  BY <1>6, <1>7, <1>8 DEF Later, Alike, IntentRecord
<1> HIDE DEF n
<1>10. Later(intent, n) /\ n.attempted = intent.attempted
  BY <1>1, <1>6, <1>7, <1>8, <1>9, LaterTransitive DEF Alike, SameJobs
<1>11. IntentTyped /\ GoesOn
  BY <1>1, <1>2, <1>8, <1>10, WarnedFacts DEF IntentTyped, GoesOn
<1>12. QED BY <1>4, <1>5, <1>11 DEF StepFacts

\* A conversation that is resumed schedules what it missed.
LEMMA ResumeStep == ASSUME ConceptsTypeOK, PendingFlown, Resume PROVE StepFacts
<1> DEFINE s == [session EXCEPT !.paused = FALSE]
<1>1. session \in SessionRecord /\ intent \in IntentRecord /\ concepts \in Seq(ConceptRecord) /\ offered \in SUBSET Refs
  BY DEF ConceptsTypeOK
<1>2. Happens /\ session' = s /\ Schedule(intent, s, concepts, offered, "progress")
      /\ UNCHANGED <<accounts, concepts, offered, removals, hour>>
  BY DEF Resume
<1>3. s \in SessionRecord
  BY <1>1 DEF SessionRecord
<1> HIDE DEF s
<1>4. AccountsTyped /\ VisitTyped /\ ConceptsTyped
  BY <1>2, <1>3, VisitMoves
<1>5. IntentTyped /\ (GoesOn \/ Starts)
  BY <1>1, <1>2, <1>3, ScheduleFacts, LaterSame DEF SameJobs
<1>6. QED BY <1>4, <1>5 DEF StepFacts

\* The session changes and nothing that flies hears of it.
LEMMA SilentStep ==
  ASSUME ConceptsTypeOK, \/ Pause \/ ChooseVisuals \/ (\E refs \in SUBSET Refs : Offer(refs))
                         \/ (\E c \in DOMAIN concepts, liked \in BOOLEAN : Judge(c, liked))
  PROVE  StepFacts
<1>1. session \in SessionRecord
  BY DEF ConceptsTypeOK
<1>2. CASE Pause
  <2>1. session' \in SessionRecord
    BY <1>1, <1>2 DEF Pause, SessionRecord
  <2>2. Happens /\ UNCHANGED <<accounts, concepts, offered, removals, hour>> /\ UNCHANGED <<intent, flight>>
    BY <1>2 DEF Pause
  <2>3. QED BY <2>1, <2>2, VisitMoves, FliesOn DEF StepFacts
<1>3. CASE ChooseVisuals
  <2>1. session' \in SessionRecord
    <3>1. 1 - session.choice \in {0, 1}
      BY <1>1 DEF SessionRecord
    <3>2. QED BY <1>1, <1>3, <3>1 DEF ChooseVisuals, SessionRecord
  <2>2. Happens /\ UNCHANGED <<accounts, concepts, offered, removals, hour>> /\ UNCHANGED <<intent, flight>>
    BY <1>3 DEF ChooseVisuals
  <2>3. QED BY <2>1, <2>2, VisitMoves, FliesOn DEF StepFacts
<1>4. ASSUME NEW refs \in SUBSET Refs, Offer(refs) PROVE StepFacts
  <2>1. Happens /\ offered' = refs /\ UNCHANGED <<accounts, concepts, session, removals, hour>> /\ UNCHANGED <<intent, flight>>
    BY <1>4 DEF Offer
  <2>2. VisitTyped /\ ConceptsTyped
    BY <1>4, <2>1 DEF VisitTyped, ConceptsTyped, Happens, ConceptsTypeOK
  <2>3. QED BY <2>1, <2>2, AccountsSame, FliesOn DEF StepFacts
<1>5. ASSUME NEW c \in DOMAIN concepts, NEW liked \in BOOLEAN, Judge(c, liked) PROVE StepFacts
  <2>1. Happens /\ UNCHANGED <<accounts, session, offered, removals, hour>> /\ UNCHANGED <<intent, flight>>
    BY <1>5 DEF Judge
  <2>2. VisitTyped
    BY <2>1 DEF VisitTyped, Happens, ConceptsTypeOK
  <2>3. ConceptsTyped
    <3>1. concepts \in Seq(ConceptRecord) /\ DOMAIN concepts = 1..Len(concepts) /\ Len(concepts) \in Nat
      BY LenProperties DEF ConceptsTypeOK
    <3>2. \A d \in DOMAIN concepts : concepts[d] \in ConceptRecord
      BY <3>1, ElementOfSeq
    <3>3. [concepts[c] EXCEPT !.liked = TRUE] \in ConceptRecord
          /\ [concepts[c] EXCEPT !.liked = FALSE, !.archived = TRUE] \in ConceptRecord
      BY <3>2 DEF ConceptRecord
    <3>4. concepts' = [concepts EXCEPT ![c] = IF liked THEN [concepts[c] EXCEPT !.liked = TRUE]
                                              ELSE [concepts[c] EXCEPT !.liked = FALSE, !.archived = TRUE]]
      BY <1>5, <3>1, <3>2 DEF Judge, ConceptRecord
    <3>5. concepts' \in [1..Len(concepts) -> ConceptRecord]
      BY <3>1, <3>2, <3>3, <3>4
    <3>6. QED BY <3>1, <3>5, SeqDef DEF ConceptsTyped
  <2>4. QED BY <2>1, <2>2, <2>3, AccountsSame, FliesOn DEF StepFacts
<1>6. QED BY <1>2, <1>3, <1>4, <1>5

\* The end of the conversation takes the pending wish.
LEMMA EndEligibilityStep == ASSUME ConceptsTypeOK, PendingFlown, EndEligibility PROVE StepFacts
<1> DEFINE n == ConversationEnded(intent)
<1>1. intent \in IntentRecord /\ IsFiniteSet(intent.attempted)
  BY DEF ConceptsTypeOK
<1>2. Happens /\ intent' = n /\ UNCHANGED <<accounts, concepts, flight, session, offered, removals, hour>>
  BY DEF EndEligibility
<1>3. Alike(intent, n) /\ Later(intent, n)
  BY <1>1, EligibleFacts, AlikeLater
<1> HIDE DEF n
<1>4. session' \in SessionRecord
  BY <1>2 DEF ConceptsTypeOK
<1>5. AccountsTyped /\ VisitTyped /\ ConceptsTyped
  BY <1>2, <1>4, VisitMoves
<1>6. ~Idle => flight \in FlightRecord
  BY DEF ConceptsTypeOK, Idle
<1>7. IntentTyped /\ GoesOn
  BY <1>1, <1>2, <1>3, <1>6 DEF IntentTyped, GoesOn, Alike, SameJobs, Idle
<1>8. QED BY <1>5, <1>7 DEF StepFacts

Flown == {"planned", "evaluating", "wallet", "returning", "claimed", "consuming", "dispatched",
          "checking", "publishing"}

\* Unless the lane is idle, there is a flight.
LEMMA Aloft == ASSUME ConceptsTypeOK, ~Idle PROVE flight \in FlightRecord
BY DEF ConceptsTypeOK, Idle

\* A flight at a stage is a flight.
LEMMA AtAloft == ASSUME NEW stage, At(stage) PROVE ~Idle /\ flight.stage = stage
BY DEF At

\* A flight that only moves on to its next stage.
LEMMA StageStep ==
  ASSUME ConceptsTypeOK, ~Idle, NEW stage \in Flown, To(stage), UNCHANGED intent
  PROVE  IntentTyped /\ GoesOn
<1>1. flight \in FlightRecord /\ intent \in IntentRecord /\ IsFiniteSet(intent.attempted)
  BY Aloft DEF ConceptsTypeOK
<1>2. flight' \in FlightRecord /\ flight'.job = flight.job /\ flight'.input = flight.input
  BY <1>1 DEF To, FlightRecord, Flown
<1>3. QED BY <1>1, <1>2, LaterSame DEF IntentTyped, GoesOn

\* Steps of a flight leave the session and the concepts.
LEMMA FlightVisit ==
  ASSUME ConceptsTypeOK, hour' \in {hour, Closing}, UNCHANGED <<concepts, session, offered, removals, events>>
  PROVE  VisitTyped /\ ConceptsTyped
BY ClosingTyped DEF VisitTyped, ConceptsTyped, ConceptsTypeOK

\* One step of the admission, up to the paid call.
LEMMA AdmissionStep ==
  ASSUME ConceptsTypeOK, PendingFlown,
         \/ Admit \/ AskWallet \/ Refused \/ (\E room \in BOOLEAN : WalletHeld(room))
         \/ (\E answered \in BOOLEAN : Return(answered)) \/ Consume
  PROVE  StepFacts
<1>1. CASE Admit
  <2>1. ~Idle /\ hour' = Closing /\ UNCHANGED accounts /\ UNCHANGED <<concepts, session, offered, removals, events>>
        /\ ((To("evaluating") /\ UNCHANGED intent) \/ Ended)
    BY <1>1, AtAloft DEF Admit
  <2>2. VisitTyped /\ ConceptsTyped /\ AccountsTyped
    BY <2>1, FlightVisit, AccountsSame
  <2>3. IntentTyped /\ (GoesOn \/ Ends \/ Starts)
    BY <2>1, StageStep, EndedFacts DEF Flown
  <2>4. QED BY <2>2, <2>3 DEF StepFacts
<1>2. CASE AskWallet
  <2>1. ~Idle /\ To("wallet") /\ UNCHANGED intent /\ hold' = [hold EXCEPT ![Attempt] = "asked"] /\ row' = row
        /\ hour' = hour /\ UNCHANGED <<concepts, session, offered, removals, events>>
    BY <1>2, AtAloft DEF AskWallet, visit
  <2>2. VisitTyped /\ ConceptsTyped
    BY <2>1, FlightVisit
  <2>3. AccountsTyped
    BY <2>1 DEF AccountsTyped, ConceptsTypeOK
  <2>4. IntentTyped /\ GoesOn
    BY <2>1, StageStep DEF Flown
  <2>5. QED BY <2>2, <2>3, <2>4 DEF StepFacts
<1>3. CASE Refused
  <2>1. ~Idle /\ Ended /\ row' = row /\ hour' = Closing /\ UNCHANGED <<concepts, session, offered, removals, events>>
        /\ (hold' = hold \/ hold' = [hold EXCEPT ![Attempt] = "none"])
    BY <1>3, AtAloft DEF Refused
  <2>2. VisitTyped /\ ConceptsTyped
    BY <2>1, FlightVisit
  <2>3. AccountsTyped
    BY <2>1 DEF AccountsTyped, ConceptsTypeOK
  <2>4. IntentTyped /\ (Ends \/ Starts)
    BY <2>1, EndedFacts
  <2>5. QED BY <2>2, <2>3, <2>4 DEF StepFacts
<1>4. ASSUME NEW room \in BOOLEAN, WalletHeld(room) PROVE StepFacts
  <2>1. At("wallet") /\ hold' = [hold EXCEPT ![Attempt] = "held"] /\ hour' = Closing
        /\ UNCHANGED <<concepts, session, offered, removals, events>> /\ UNCHANGED intent
    BY <1>4 DEF WalletHeld
  <2>2. VisitTyped /\ ConceptsTyped
    BY <2>1, FlightVisit
  <2>3. CASE Open /\ room
    <3>1. To("claimed") /\ row' = [row EXCEPT ![Attempt] = "claimed"]
      BY <1>4, <2>3 DEF WalletHeld
    <3>2. AccountsTyped
      BY <2>1, <3>1 DEF AccountsTyped, ConceptsTypeOK
    <3>3. IntentTyped /\ GoesOn
      BY <2>1, <3>1, AtAloft, StageStep DEF Flown
    <3>4. QED BY <2>2, <3>2, <3>3 DEF StepFacts
  <2>4. CASE ~(Open /\ room)
    <3>1. To("returning") /\ row' = row
      BY <1>4, <2>4 DEF WalletHeld
    <3>2. AccountsTyped
      BY <2>1, <3>1 DEF AccountsTyped, ConceptsTypeOK
    <3>3. IntentTyped /\ GoesOn
      BY <2>1, <3>1, AtAloft, StageStep DEF Flown
    <3>4. QED BY <2>2, <3>2, <3>3 DEF StepFacts
  <2>5. QED BY <2>3, <2>4
<1>5. ASSUME NEW answered \in BOOLEAN, Return(answered) PROVE StepFacts
  <2>1. ~Idle /\ Ended /\ row' = row
        /\ hold' = [hold EXCEPT ![Attempt] = IF answered THEN "none" ELSE "lost"]
        /\ hour' = hour /\ UNCHANGED <<concepts, session, offered, removals, events>>
    BY <1>5, AtAloft DEF Return, visit
  <2>2. VisitTyped /\ ConceptsTyped
    BY <2>1, FlightVisit
  <2>3. AccountsTyped
    BY <2>1 DEF AccountsTyped, ConceptsTypeOK
  <2>4. IntentTyped /\ (Ends \/ Starts)
    BY <2>1, EndedFacts
  <2>5. QED BY <2>2, <2>3, <2>4 DEF StepFacts
<1>6. CASE Consume
  <2>1. At("claimed") /\ hold' = hold /\ hour' = Closing /\ UNCHANGED <<concepts, session, offered, removals, events>>
    BY <1>6 DEF Consume
  <2>2. VisitTyped /\ ConceptsTyped
    BY <2>1, FlightVisit
  <2>3. CASE Open /\ Current /\ ~flight.aborted
    <3>1. To("consuming") /\ intent' = intent /\ row' = row
      BY <1>6, <2>3 DEF Consume
    <3>2. AccountsTyped
      BY <2>1, <3>1 DEF AccountsTyped, ConceptsTypeOK
    <3>3. IntentTyped /\ GoesOn
      BY <2>1, <3>1, AtAloft, StageStep DEF Flown
    <3>4. QED BY <2>2, <3>2, <3>3 DEF StepFacts
  <2>4. CASE ~(Open /\ Current /\ ~flight.aborted)
    <3>1. Ended /\ Settled
      BY <1>6, <2>4 DEF Consume
    <3>2. AccountsTyped
      BY <2>1, <3>1 DEF AccountsTyped, ConceptsTypeOK, Settled
    <3>3. IntentTyped /\ (Ends \/ Starts)
      BY <2>1, <3>1, AtAloft, EndedFacts
    <3>4. QED BY <2>2, <3>2, <3>3 DEF StepFacts
  <2>5. QED BY <2>3, <2>4
<1>7. QED BY <1>1, <1>2, <1>3, <1>4, <1>5, <1>6

\* The concept that is stored is well typed.
LEMMA StoredTyped ==
  ASSUME ConceptsTypeOK, NEW job \in JobRecord
  PROVE  /\ Dependencies(job) \in SUBSET Sources
         /\ [id |-> job.id, deps |-> Dependencies(job), seen |-> job.seen,
             liked |-> FALSE, archived |-> FALSE, erased |-> FALSE] \in ConceptRecord
<1>1. \A c \in DOMAIN concepts : concepts[c] \in ConceptRecord
  BY DEF ConceptsTypeOK
<1>2. \A c \in DOMAIN concepts : concepts[c].deps \in SUBSET Sources
  BY <1>1 DEF ConceptRecord
<1>3. job.sources \in SUBSET Sources
  BY DEF JobRecord
<1>4. Dependencies(job) \in SUBSET Sources
  BY <1>2, <1>3 DEF Dependencies
<1>5. QED BY <1>4 DEF ConceptRecord, JobRecord

\* A stored result is a concept, and ends the flight.
LEMMA CompleteStep == ASSUME ConceptsTypeOK, PendingFlown, Complete PROVE StepFacts /\ (Ends \/ Starts)
<1> DEFINE job == flight.job
           i == Synced(intent, session, concepts, offered)
           stored == [id |-> job.id, deps |-> Dependencies(job), seen |-> job.seen,
                      liked |-> FALSE, archived |-> FALSE, erased |-> FALSE]
           done == [i EXCEPT !.pending = NoJob]
<1>1. session \in SessionRecord /\ intent \in IntentRecord /\ IsFiniteSet(intent.attempted)
      /\ concepts \in Seq(ConceptRecord) /\ offered \in SUBSET Refs
  BY DEF ConceptsTypeOK
<1>2. /\ ~Idle /\ concepts' = Append(concepts, stored) /\ UNCHANGED visit /\ UNCHANGED accounts
      /\ IF flight.again THEN Run(done, session, concepts', offered, "progress")
                         ELSE intent' = done /\ flight' = NoFlight
  BY AtAloft DEF Complete
<1>3. job \in JobRecord
  BY <1>2, Aloft DEF FlightRecord
<1>4. stored \in ConceptRecord
  BY <1>3, StoredTyped
<1> HIDE DEF stored
<1>5. ConceptsTyped
  BY <1>1, <1>2, <1>4, AppendProperties DEF ConceptsTyped
<1>6. VisitTyped /\ AccountsTyped
  BY <1>2, AccountsSame DEF visit, VisitTyped, ConceptsTypeOK
<1>7. i \in IntentRecord /\ SameJobs(intent, i) /\ Later(intent, i)
  BY <1>1, SyncedFacts
<1> HIDE DEF i
<1>8. done \in IntentRecord /\ Later(i, done) /\ done.pending = NoJob /\ done.attempted = i.attempted
  BY <1>7, ClearedFacts
<1> HIDE DEF done
<1>9. Later(intent, done) /\ done.attempted = intent.attempted
  BY <1>1, <1>7, <1>8, LaterTransitive DEF SameJobs
<1>10. IntentTyped /\ (Ends \/ Starts)
  <2>1. CASE flight.again
    BY <1>1, <1>2, <1>5, <1>8, <1>9, <2>1, RunFacts DEF ConceptsTyped
  <2>2. CASE ~flight.again
    BY <1>1, <1>2, <1>8, <1>9, <2>2 DEF IntentTyped, Ends
  <2>3. QED BY <2>1, <2>2
<1>11. QED BY <1>5, <1>6, <1>10 DEF StepFacts

\* The paid call and what is made of its result.
LEMMA RenderStep ==
  ASSUME ConceptsTypeOK, PendingFlown, Dispatch \/ Broken \/ Rendered \/ Covered \/ Unpublished
  PROVE  StepFacts
<1>1. CASE Dispatch
  <2>1. ~Idle /\ To("dispatched") /\ row' = [row EXCEPT ![Attempt] = "dispatched"] /\ hold' = hold /\ UNCHANGED intent
        /\ hour' = hour /\ UNCHANGED <<concepts, session, offered, removals, events>>
    BY <1>1, AtAloft DEF Dispatch, visit
  <2>2. VisitTyped /\ ConceptsTyped
    BY <2>1, FlightVisit
  <2>3. AccountsTyped
    BY <2>1 DEF AccountsTyped, ConceptsTypeOK
  <2>4. QED BY <2>1, <2>2, <2>3, StageStep DEF StepFacts, Flown
<1>2. CASE Broken
  <2>1. ~Idle /\ Ended /\ Settled /\ hold' = hold /\ hour' = Closing
        /\ UNCHANGED <<concepts, session, offered, removals, events>>
    BY <1>2, AtAloft DEF Broken
  <2>2. VisitTyped /\ ConceptsTyped
    BY <2>1, FlightVisit
  <2>3. AccountsTyped
    BY <2>1 DEF AccountsTyped, ConceptsTypeOK, Settled
  <2>4. QED BY <2>1, <2>2, <2>3, EndedFacts DEF StepFacts
<1>3. CASE Rendered
  <2>1. ~Idle /\ Settled /\ hold' = hold /\ UNCHANGED intent
        /\ flight' = [flight EXCEPT !.stage = "checking", !.read = session.consent]
        /\ hour' = hour /\ UNCHANGED <<concepts, session, offered, removals, events>>
    BY <1>3, AtAloft DEF Rendered, visit
  <2>2. VisitTyped /\ ConceptsTyped
    BY <2>1, FlightVisit
  <2>3. AccountsTyped
    BY <2>1 DEF AccountsTyped, ConceptsTypeOK, Settled
  <2>4. flight \in FlightRecord /\ session.consent \in Nat /\ intent \in IntentRecord /\ IsFiniteSet(intent.attempted)
    BY <2>1, Aloft DEF ConceptsTypeOK, SessionRecord
  <2>5. flight' \in FlightRecord /\ flight'.job = flight.job /\ flight'.input = flight.input
    BY <2>1, <2>4 DEF FlightRecord
  <2>6. IntentTyped /\ GoesOn
    BY <2>1, <2>4, <2>5, LaterSame DEF IntentTyped, GoesOn
  <2>7. QED BY <2>2, <2>3, <2>6 DEF StepFacts
<1>4. CASE Covered
  <2>1. ~Idle /\ To("publishing") /\ UNCHANGED accounts /\ UNCHANGED intent
        /\ hour' = hour /\ UNCHANGED <<concepts, session, offered, removals, events>>
    BY <1>4, AtAloft DEF Covered, visit
  <2>2. QED BY <2>1, FlightVisit, AccountsSame, StageStep DEF StepFacts, Flown
<1>5. CASE Unpublished
  <2>1. ~Idle /\ Ended /\ UNCHANGED accounts
        /\ hour' = hour /\ UNCHANGED <<concepts, session, offered, removals, events>>
    BY <1>5, AtAloft DEF Unpublished, visit
  <2>2. QED BY <2>1, FlightVisit, AccountsSame, EndedFacts DEF StepFacts
<1>6. QED BY <1>1, <1>2, <1>3, <1>4, <1>5

\* Time, other conversations, and the process.
LEMMA WorldStep ==
  ASSUME ConceptsTypeOK, PendingFlown, Abort \/ OtherRender \/ NextDay \/ HourPasses \/ Tick \/ Restart
  PROVE  StepFacts
<1>1. CASE Abort
  <2>1. ~Idle /\ flight' = [flight EXCEPT !.aborted = TRUE] /\ UNCHANGED accounts /\ UNCHANGED intent
        /\ hour' = hour /\ UNCHANGED <<concepts, session, offered, removals, events>>
    BY <1>1 DEF Abort, visit
  <2>2. flight \in FlightRecord /\ intent \in IntentRecord /\ IsFiniteSet(intent.attempted)
    BY <2>1, Aloft DEF ConceptsTypeOK
  <2>3. flight' \in FlightRecord /\ flight'.job = flight.job /\ flight'.input = flight.input
    BY <2>1, <2>2 DEF FlightRecord
  <2>4. IntentTyped /\ GoesOn
    BY <2>1, <2>2, <2>3, LaterSame DEF IntentTyped, GoesOn
  <2>5. QED BY <2>1, <2>4, FlightVisit, AccountsSame DEF StepFacts
<1>2. CASE OtherRender \/ NextDay
  <2>1. Happens /\ row' = row /\ hold' = hold /\ UNCHANGED <<intent, flight>>
        /\ UNCHANGED <<session, offered, removals, hour, concepts>>
    BY <1>2 DEF OtherRender, NextDay
  <2>2. VisitTyped /\ ConceptsTyped /\ AccountsTyped
    BY <2>1 DEF Happens, VisitTyped, ConceptsTyped, AccountsTyped, ConceptsTypeOK
  <2>3. QED BY <2>1, <2>2, FliesOn DEF StepFacts
<1>3. CASE HourPasses \/ Tick
  <2>1. UNCHANGED accounts /\ UNCHANGED <<intent, flight>> /\ UNCHANGED <<session, offered, removals, events, concepts>>
        /\ hour' \in {Closing, [hour EXCEPT !.late = TRUE]}
    BY <1>3 DEF HourPasses, Tick
  <2>2. hour' \in [status : {"active", "ended"}, late : BOOLEAN]
    BY <2>1, ClosingTyped DEF ConceptsTypeOK
  <2>3. VisitTyped /\ ConceptsTyped
    BY <2>1, <2>2 DEF VisitTyped, ConceptsTyped, ConceptsTypeOK
  <2>4. QED BY <2>1, <2>3, AccountsSame, FliesOn DEF StepFacts
<1>4. CASE Restart
  <2>1. /\ Happens /\ flight' = NoFlight /\ intent' = [intent EXCEPT !.pending = NoJob] /\ hour' = Closing
        /\ row' = [j \in Jobs |-> IF row[j] = "none" THEN "none" ELSE "settled"]
        /\ hold' = [j \in Jobs |-> IF hold[j] = "asked" \/ (hold[j] = "held" /\ row[j] = "none")
                                   THEN "lost" ELSE hold[j]]
        /\ UNCHANGED <<session, offered, removals, concepts>>
    BY <1>4 DEF Restart
  <2>2. VisitTyped /\ ConceptsTyped
    BY <2>1, ClosingTyped DEF Happens, VisitTyped, ConceptsTyped, ConceptsTypeOK
  <2>3. AccountsTyped
    BY <2>1 DEF AccountsTyped, ConceptsTypeOK
  <2>4. intent \in IntentRecord /\ IsFiniteSet(intent.attempted)
    BY DEF ConceptsTypeOK
  <2>5. IntentTyped /\ Ends
    BY <2>1, <2>4, ClearedFacts DEF IntentTyped, Ends
  <2>6. QED BY <2>2, <2>3, <2>5 DEF StepFacts
<1>5. QED BY <1>1, <1>2, <1>3, <1>4

\* Each action keeps the types, and a flight goes on, ends or starts.
LEMMA EveryStep == ASSUME ConceptsTypeOK, PendingFlown, [Next]_vars PROVE StepFacts
<1>1. CASE PersonOrHost
  BY <1>1, RecordTurnStep, UnderstoodStep, AskStep, WithdrawStep, RemoveReferenceStep, GrantStep, RevokeStep,
     ResumeStep, SilentStep, EndEligibilityStep DEF PersonOrHost
<1>2. CASE Flies
  BY <1>2, AdmissionStep, RenderStep, CompleteStep DEF Flies
<1>3. CASE UNCHANGED vars
  <2>1. UNCHANGED accounts /\ UNCHANGED <<intent, flight>> /\ hour' = hour
        /\ UNCHANGED <<concepts, session, offered, removals, events>>
    BY <1>3 DEF vars, visit
  <2>2. QED BY <2>1, FlightVisit, AccountsSame, FliesOn DEF StepFacts
<1>4. QED BY <1>1, <1>2, <1>3, WorldStep DEF Next

\* The types and the pending job's flight are inductive together.
LEMMA StepKeeps == ASSUME ConceptsTypeOK, PendingFlown, [Next]_vars PROVE ConceptsTypeOK' /\ PendingFlown'
<1>1. StepFacts
  BY EveryStep
<1>2. flight' \in FlightRecord \cup {NoFlight}
  BY <1>1 DEF StepFacts, GoesOn, Ends, Starts
<1>3. ConceptsTypeOK'
  BY <1>1, <1>2 DEF StepFacts, AccountsTyped, VisitTyped, ConceptsTyped, IntentTyped, ConceptsTypeOK
<1>4. PendingFlown'
  BY <1>1, FlightIsReal DEF StepFacts, GoesOn, Ends, Starts, PendingFlown, Idle
<1>5. QED BY <1>3, <1>4

\* The initial state is well typed and nothing is pending.
LEMMA InitFacts == ASSUME Init PROVE ConceptsTypeOK /\ PendingFlown
<1>1. session \in SessionRecord
  <2>1. 0 \in 0..MaxTurns
    BY Numbers
  <2>2. QED BY <2>1 DEF Init, SessionRecord
<1>2. concepts \in Seq(ConceptRecord)
  BY EmptySeq DEF Init
<1>3. intent \in IntentRecord /\ intent.attempted = {} /\ intent.pending = NoJob
  BY DEF Init, IntentRecord, Revisions, NoWish
<1>4. IsFiniteSet(intent.attempted)
  BY <1>3, FS_EmptySet
<1>5. ConceptsTypeOK
  BY <1>1, <1>2, <1>3, <1>4 DEF Init, ConceptsTypeOK
<1>6. PendingFlown
  BY <1>3 DEF Init, PendingFlown, Idle
<1>7. QED BY <1>5, <1>6

\* Whatever is asked, withdrawn, refused, aborted or restarted, the lane's state
\* stays well typed and its pending job is the job of its flight.
THEOREM ConceptsTypeCorrect == Spec => [](ConceptsTypeOK /\ PendingFlown)
<1>1. Init => ConceptsTypeOK /\ PendingFlown
  BY InitFacts
<1>2. (ConceptsTypeOK /\ PendingFlown) /\ [Next]_vars => (ConceptsTypeOK /\ PendingFlown)'
  BY StepKeeps
<1>3. QED BY <1>1, <1>2, PTL DEF Spec

\* A durable job is never pending without the flight that will end it.
THEOREM PendingAlwaysFlies == Spec => []PendingFlies
<1>1. PendingFlown => PendingFlies
  BY DEF PendingFlown, PendingFlies
<1>2. QED BY <1>1, ConceptsTypeCorrect, PTL

-----------------------------------------------------------------------------
(* What is paid, counted and held *)

\* The person and the host touch neither books nor the stage of a flight.
LEMMA OutsideTheFlight ==
  ASSUME ConceptsTypeOK, PersonOrHost
  PROVE  /\ UNCHANGED accounts
         /\ ~Idle => ~Idle' /\ flight'.stage = flight.stage /\ flight'.job = flight.job
<1>1. UNCHANGED accounts
  BY DEF PersonOrHost, RecordTurn, Understood, Ask, Withdraw, Offer, RemoveReference, Grant, Revoke, Pause, Resume,
     ChooseVisuals, Judge, EndEligibility
<1>2. ASSUME ~Idle
      PROVE  \/ flight' = flight
             \/ \E i, s, cs, refs : flight' = Warned(i, s, cs, refs)
             \/ \E i, s, cs, refs : flight' = [Warned(i, s, cs, refs) EXCEPT !.again = TRUE]
  <2>1. CASE Revoke
    BY <2>1 DEF Revoke
  <2>2. CASE \E t \in Turns, expired \in BOOLEAN : Withdraw(t, expired)
    BY <2>2 DEF Withdraw
  <2>3. CASE \E r \in Refs : RemoveReference(r)
    BY <2>3 DEF RemoveReference
  <2>4. CASE \E unchanged \in BOOLEAN : Grant(unchanged)
    BY <1>2, <2>4 DEF Grant
  <2>5. CASE RecordTurn \/ Resume \/ (\E t \in Turns : Ask(t))
    BY <1>2, <2>5 DEF RecordTurn, Resume, Ask, Schedule
  <2>6. CASE \E level \in Levels, heard \in BOOLEAN : Understood(level, heard)
    BY <1>2, <2>6 DEF Understood, Schedule
  <2>7. CASE Pause \/ ChooseVisuals \/ EndEligibility \/ (\E refs \in SUBSET Refs : Offer(refs))
             \/ (\E c \in DOMAIN concepts, liked \in BOOLEAN : Judge(c, liked))
    BY <2>7 DEF Pause, ChooseVisuals, EndEligibility, Offer, Judge
  <2>8. QED BY <2>1, <2>2, <2>3, <2>4, <2>5, <2>6, <2>7 DEF PersonOrHost
<1>3. ASSUME ~Idle
      PROVE  flight' \in FlightRecord /\ flight'.stage = flight.stage /\ flight'.job = flight.job
  <2>1. flight \in FlightRecord
    BY <1>3, Aloft
  <2>2. CASE flight' = flight
    BY <2>1, <2>2
  <2>3. ASSUME NEW i, NEW s, NEW cs, NEW refs, flight' = Warned(i, s, cs, refs)
        PROVE  flight' \in FlightRecord /\ flight'.stage = flight.stage /\ flight'.job = flight.job
    BY <1>3, <2>3, WarnedFacts
  <2>4. ASSUME NEW i, NEW s, NEW cs, NEW refs, flight' = [Warned(i, s, cs, refs) EXCEPT !.again = TRUE]
        PROVE  flight' \in FlightRecord /\ flight'.stage = flight.stage /\ flight'.job = flight.job
    <3> DEFINE f == Warned(i, s, cs, refs)
    <3>1. f \in FlightRecord /\ f.stage = flight.stage /\ f.job = flight.job
      BY <1>3, WarnedFacts
    <3> HIDE DEF f
    <3>2. flight' = [f EXCEPT !.again = TRUE]
      BY <2>4 DEF f
    <3>3. QED BY <3>1, <3>2 DEF FlightRecord
  <2>5. QED BY <1>2, <1>3, <2>2, <2>3, <2>4
<1>4. QED BY <1>1, <1>3, FlightIsReal DEF Idle

\* The types and the pending job are known in every step.
LEMMA PaidStep ==
  ASSUME ConceptsTypeOK, PendingFlown, [Next]_vars, NEW j \in Jobs, row'[j] = "dispatched", row[j] # "dispatched"
  PROVE  Dispatch /\ j = Attempt
<1>1. CASE UNCHANGED vars \/ PersonOrHost
  BY <1>1, OutsideTheFlight DEF vars, accounts
<1>2. CASE Abort \/ OtherRender \/ NextDay \/ HourPasses \/ Tick
  BY <1>2 DEF Abort, OtherRender, NextDay, HourPasses, Tick, accounts
<1>3. CASE Restart
  BY <1>3 DEF Restart, ConceptsTypeOK
<1>4. CASE Admit \/ AskWallet \/ Refused \/ Covered \/ Unpublished \/ Complete
           \/ (\E answered \in BOOLEAN : Return(answered))
  BY <1>4 DEF Admit, AskWallet, Refused, Covered, Unpublished, Complete, Return, accounts
<1>5. CASE (\E room \in BOOLEAN : WalletHeld(room)) \/ Consume \/ Broken \/ Rendered
  <2>1. row' \in {row, [row EXCEPT ![Attempt] = "claimed"], [row EXCEPT ![Attempt] = "settled"]}
    BY <1>5 DEF WalletHeld, Consume, Broken, Rendered, Settled
  <2>2. QED BY <2>1 DEF ConceptsTypeOK
<1>6. CASE Dispatch
  <2>1. row' = [row EXCEPT ![Attempt] = "dispatched"]
    BY <1>6 DEF Dispatch
  <2>2. QED BY <1>6, <2>1 DEF ConceptsTypeOK
<1>7. QED BY <1>1, <1>2, <1>3, <1>4, <1>5, <1>6 DEF Next, Flies

\* A render is paid for only as the pending job of an unchanged, consenting and
\* running conversation in its hour.
THEOREM PaidOnlyCurrent == Spec => PaidIfCurrent
<1> DEFINE Paid == \A j \in Jobs : row'[j] = "dispatched" /\ row[j] # "dispatched" =>
             /\ intent.pending # NoJob /\ intent.pending.id = j
             /\ intent.pending.rev[1] = InputRev(session)
             /\ session.choice = flight.choice /\ ~session.revoked /\ ~session.paused
             /\ ~hour.late /\ ~flight.aborted
<1>1. ConceptsTypeOK /\ PendingFlown /\ [Next]_vars => Paid
  <2> SUFFICES ASSUME ConceptsTypeOK, PendingFlown, [Next]_vars,
                      NEW j \in Jobs, row'[j] = "dispatched", row[j] # "dispatched"
               PROVE  /\ intent.pending # NoJob /\ intent.pending.id = j
                      /\ intent.pending.rev[1] = InputRev(session)
                      /\ session.choice = flight.choice /\ ~session.revoked /\ ~session.paused
                      /\ ~hour.late /\ ~flight.aborted
    OBVIOUS
  <2>1. Dispatch /\ j = flight.job.id
    BY PaidStep DEF Attempt
  <2>2. Open /\ Current /\ ~flight.aborted
    BY <2>1 DEF Dispatch
  <2>3. ~hour.late
    BY <2>2 DEF Open
  <2>4. /\ intent.pending # NoJob /\ intent.pending.id = j /\ InputRev(session) = flight.input
        /\ session.choice = flight.choice /\ ~session.revoked /\ ~session.paused
    BY <2>1, <2>2 DEF Current
  <2>5. intent.pending.rev[1] = InputRev(session)
    BY <2>4 DEF PendingFlown
  <2>6. QED BY <2>2, <2>3, <2>4, <2>5
<1>2. (ConceptsTypeOK /\ PendingFlown) /\ [Next]_vars => [Paid]_vars
  BY <1>1
<1>3. Spec => [][Paid]_vars
  BY <1>2, ConceptsTypeCorrect, PTL DEF Spec
<1>4. QED BY <1>3 DEF PaidIfCurrent

\* A day's count starts anew because no claim is dated after today.
ClaimsDated ==
  /\ IsFiniteSet(DOMAIN claims)
  /\ \A j \in DOMAIN claims : claims[j] \in Nat /\ claims[j] <= today
  /\ today \in Nat /\ others \in Nat

Counted == <<claims, today, others>>

\* Only a paid call, another conversation's, and the next day change the counts.
LEMMA CountedSame ==
  ASSUME [Next]_vars
  PROVE  UNCHANGED Counted \/ Dispatch \/ OtherRender \/ NextDay
<1>1. CASE UNCHANGED vars
  BY <1>1 DEF vars, accounts, Counted
<1>2. CASE PersonOrHost
  BY <1>2 DEF PersonOrHost, RecordTurn, Understood, Ask, Withdraw, Offer, RemoveReference, Grant, Revoke, Pause, Resume,
     ChooseVisuals, Judge, EndEligibility, accounts, Counted
<1>3. CASE Abort \/ HourPasses \/ Tick \/ Restart
  BY <1>3 DEF Abort, HourPasses, Tick, Restart, accounts, Counted
<1>4. CASE Admit \/ AskWallet \/ Refused \/ Consume \/ Broken \/ Rendered \/ Covered \/ Unpublished \/ Complete
  BY <1>4 DEF Admit, AskWallet, Refused, Consume, Broken, Rendered, Covered, Unpublished, Complete, accounts, Counted
<1>5. CASE (\E room \in BOOLEAN : WalletHeld(room)) \/ (\E answered \in BOOLEAN : Return(answered))
  BY <1>5 DEF WalletHeld, Return, Counted
<1>6. QED BY <1>1, <1>2, <1>3, <1>4, <1>5 DEF Next, Flies

\* A new element adds at most one.
LEMMA AtMostOneMore ==
  ASSUME NEW S, NEW x, IsFiniteSet(S)
  PROVE  /\ IsFiniteSet(S \cup {x})
         /\ Cardinality(S \cup {x}) \in Nat
         /\ Cardinality(S \cup {x}) <= Cardinality(S) + 1
<1>1. IsFiniteSet(S \cup {x}) /\ (x \in S => Cardinality(S \cup {x}) = Cardinality(S))
      /\ (x \notin S => Cardinality(S \cup {x}) = Cardinality(S) + 1)
  BY FS_AddElement, Zenon
<1>2. Cardinality(S \cup {x}) \in Nat /\ Cardinality(S) \in Nat
  BY <1>1, FS_CardinalityType
<1>3. QED BY <1>1, <1>2

\* A paid call is counted under both limits.
LEMMA CountStep ==
  ASSUME ClaimsDated, WithinLimits, [Next]_vars
  PROVE  ClaimsDated' /\ WithinLimits'
<1> DEFINE Claimed(d) == {j \in DOMAIN claims : claims[j] = d}
<1>1. \A d : IsFiniteSet(Claimed(d)) /\ Cardinality(Claimed(d)) \in Nat
  BY FS_Subset, FS_CardinalityType DEF ClaimsDated
<1>2. Cardinality(DOMAIN claims) \in Nat /\ today \in Nat /\ others \in Nat /\ PerDay \in Nat /\ PerSession \in Nat
  BY FS_CardinalityType, Numbers DEF ClaimsDated
<1>3. CASE UNCHANGED Counted
  BY <1>3 DEF Counted, ClaimsDated, WithinLimits
<1>4. CASE Dispatch
  <2>1. /\ ~Reason /\ today' = today /\ others' = others
        /\ claims' = [j \in DOMAIN claims \cup {Attempt} |-> IF j = Attempt THEN today ELSE claims[j]]
    BY <1>4 DEF Dispatch
  <2>2. DOMAIN claims' = DOMAIN claims \cup {Attempt}
        /\ {j \in DOMAIN claims' : claims'[j] = today} = Claimed(today) \cup {Attempt}
    BY <2>1
  <2>3. /\ Cardinality(DOMAIN claims) + 1 <= PerSession
        /\ Cardinality(Claimed(today)) + others + 1 <= PerDay
    BY <1>1, <1>2, <2>1 DEF Reason
  <2>4. IsFiniteSet(DOMAIN claims) /\ IsFiniteSet(Claimed(today))
    BY <1>1 DEF ClaimsDated
  <2>9. /\ IsFiniteSet(DOMAIN claims \cup {Attempt})
        /\ Cardinality(DOMAIN claims \cup {Attempt}) <= Cardinality(DOMAIN claims) + 1
        /\ Cardinality(DOMAIN claims \cup {Attempt}) \in Nat
    BY <2>4, AtMostOneMore
  <2>5. /\ Cardinality(Claimed(today) \cup {Attempt}) <= Cardinality(Claimed(today)) + 1
        /\ Cardinality(Claimed(today) \cup {Attempt}) \in Nat
    <3> HIDE DEF Claimed
    <3>1. QED BY <2>4, AtMostOneMore
  <2>6. ClaimsDated'
    BY <2>1, <2>2, <2>9 DEF ClaimsDated
  <2>7. WithinLimits'
    <3>1. Cardinality(DOMAIN claims') <= PerSession
      BY <1>2, <2>2, <2>3, <2>9
    <3>2. Cardinality({j \in DOMAIN claims' : claims'[j] = today'}) + others' <= PerDay
      <4> HIDE DEF Claimed
      <4>1. Cardinality({j \in DOMAIN claims' : claims'[j] = today'}) = Cardinality(Claimed(today) \cup {Attempt})
        BY <2>1, <2>2
      <4>2. QED BY <1>1, <1>2, <2>1, <2>3, <2>5, <4>1
    <3>3. QED BY <3>1, <3>2 DEF WithinLimits
  <2>8. QED BY <2>6, <2>7
<1>5. CASE OtherRender
  <2>1. claims' = claims /\ today' = today /\ others' = others + 1 /\ Cardinality(Claimed(today)) + others < PerDay
    BY <1>5 DEF OtherRender
  <2>2. ClaimsDated'
    BY <2>1 DEF ClaimsDated
  <2>3. WithinLimits'
    BY <1>1, <1>2, <2>1 DEF WithinLimits
  <2>4. QED BY <2>2, <2>3
<1>6. CASE NextDay
  <2>1. claims' = claims /\ today' = today + 1 /\ others' = 0
    BY <1>6 DEF NextDay
  <2>2. ClaimsDated'
    BY <2>1 DEF ClaimsDated
  <2>3. {j \in DOMAIN claims' : claims'[j] = today'} = {}
    BY <2>1 DEF ClaimsDated
  <2>4. Cardinality({j \in DOMAIN claims' : claims'[j] = today'}) + others' <= PerDay
    BY <1>2, <2>1, <2>3, FS_EmptySet
  <2>5. Cardinality(DOMAIN claims') <= PerSession
    BY <2>1 DEF WithinLimits
  <2>6. QED BY <2>2, <2>4, <2>5 DEF WithinLimits
<1>7. QED BY <1>3, <1>4, <1>5, <1>6, CountedSame

\* However many renders were admitted, those paid for stay within the session's
\* and the day's limit.
THEOREM LimitsHold == Spec => []WithinLimits
<1>1. Init => ClaimsDated /\ WithinLimits
  <2> SUFFICES ASSUME Init PROVE ClaimsDated /\ WithinLimits
    OBVIOUS
  <2>1. DOMAIN claims = {} /\ today = 0 /\ others = 0
    BY DEF Init
  <2>2. {j \in DOMAIN claims : claims[j] = today} = {}
    BY <2>1
  <2>3. QED BY <2>1, <2>2, FS_EmptySet, Numbers DEF ClaimsDated, WithinLimits
<1>2. (ClaimsDated /\ WithinLimits) /\ [Next]_vars => (ClaimsDated /\ WithinLimits)'
  BY CountStep
<1>3. QED BY <1>1, <1>2, PTL DEF Spec

\* A hold is taken with a flight, and returned or backed by a row before it lands.
LEMMA HeldStep ==
  ASSUME ConceptsTypeOK, WalletReturned, [Next]_vars
  PROVE  WalletReturned'
<1> SUFFICES ASSUME NEW j \in Jobs, hold'[j] = "held", row'[j] = "none"
             PROVE  ~Idle' /\ flight'.stage = "returning" /\ flight'.job.id = j
  BY DEF WalletReturned, At, Attempt
<1>1. hold[j] = "held" /\ row[j] = "none" => ~Idle /\ flight.stage = "returning" /\ flight.job.id = j
  BY DEF WalletReturned, At, Attempt
<1>2. CASE UNCHANGED vars \/ PersonOrHost
  <2>1. UNCHANGED accounts
    BY <1>2, OutsideTheFlight DEF vars
  <2>2. ~Idle => ~Idle' /\ flight'.stage = flight.stage /\ flight'.job = flight.job
    BY <1>2, OutsideTheFlight DEF vars, Idle
  <2>3. QED BY <1>1, <2>1, <2>2 DEF accounts
<1>3. CASE OtherRender \/ NextDay \/ HourPasses \/ Tick
  BY <1>1, <1>3 DEF OtherRender, NextDay, HourPasses, Tick, accounts, Idle
<1>4. CASE Abort
  <2>1. row' = row /\ hold' = hold /\ ~Idle /\ flight' = [flight EXCEPT !.aborted = TRUE]
    BY <1>4 DEF Abort, accounts
  <2>2. flight \in FlightRecord
    BY <2>1, Aloft
  <2>3. flight' \in FlightRecord /\ flight'.stage = flight.stage /\ flight'.job = flight.job
    BY <2>1, <2>2 DEF FlightRecord
  <2>4. QED BY <1>1, <2>1, <2>3, FlightIsReal DEF Idle
<1>5. CASE Restart
  BY <1>5 DEF Restart
<1>6. CASE Admit \/ Covered \/ Unpublished \/ Complete
  <2>1. row' = row /\ hold' = hold /\ ~Idle /\ flight.stage # "returning"
    BY <1>6, AtAloft DEF Admit, Covered, Unpublished, Complete, At, accounts
  <2>2. QED BY <1>1, <2>1
<1>7. CASE AskWallet \/ Refused
  <2>1. row' = row /\ ~Idle /\ flight.stage # "returning"
        /\ hold' \in {hold, [hold EXCEPT ![Attempt] = "asked"], [hold EXCEPT ![Attempt] = "none"]}
    BY <1>7, AtAloft DEF AskWallet, Refused, At
  <2>2. hold[j] = "held"
    BY <2>1 DEF ConceptsTypeOK
  <2>3. QED BY <1>1, <2>1, <2>2
<1>8. CASE Consume \/ Broken \/ Dispatch \/ Rendered
  <2>1. hold' = hold /\ ~Idle /\ flight.stage # "returning"
        /\ row' \in {row, [row EXCEPT ![Attempt] = "settled"], [row EXCEPT ![Attempt] = "dispatched"]}
    BY <1>8, AtAloft DEF Consume, Broken, Dispatch, Rendered, At, Settled
  <2>2. row[j] = "none"
    BY <2>1 DEF ConceptsTypeOK
  <2>3. QED BY <1>1, <2>1, <2>2
<1>9. ASSUME NEW room \in BOOLEAN, WalletHeld(room)
      PROVE  ~Idle' /\ flight'.stage = "returning" /\ flight'.job.id = j
  <2>1. At("wallet") /\ hold' = [hold EXCEPT ![Attempt] = "held"]
    BY <1>9 DEF WalletHeld
  <2>2. ~Idle /\ flight \in FlightRecord /\ flight.stage = "wallet"
    BY <2>1, AtAloft, Aloft
  <2>3. CASE Open /\ room
    <3>1. row' = [row EXCEPT ![Attempt] = "claimed"]
      BY <1>9, <2>3 DEF WalletHeld
    <3>2. j # Attempt /\ hold[j] = "held" /\ row[j] = "none"
      BY <2>1, <3>1 DEF ConceptsTypeOK
    <3>3. QED BY <1>1, <2>2, <3>2
  <2>4. CASE ~(Open /\ room)
    <3>1. row' = row /\ flight' = [flight EXCEPT !.stage = "returning"]
      BY <1>9, <2>4 DEF WalletHeld, To
    <3>2. flight' \in FlightRecord /\ flight'.stage = "returning" /\ flight'.job = flight.job
      BY <2>2, <3>1 DEF FlightRecord
    <3>3. j = Attempt
      BY <1>1, <2>1, <2>2, <3>1 DEF ConceptsTypeOK
    <3>4. QED BY <3>2, <3>3, FlightIsReal DEF Attempt, Idle
  <2>5. QED BY <2>3, <2>4
<1>10. ASSUME NEW answered \in BOOLEAN, Return(answered) PROVE FALSE
  <2>1. row' = row /\ hold' = [hold EXCEPT ![Attempt] = IF answered THEN "none" ELSE "lost"]
    BY <1>10 DEF Return
  <2>2. j # Attempt /\ hold[j] = "held" /\ row[j] = "none"
    BY <2>1 DEF ConceptsTypeOK
  <2>3. QED BY <1>1, <2>2 DEF Attempt
<1>11. QED BY <1>2, <1>3, <1>4, <1>5, <1>6, <1>7, <1>8, <1>9, <1>10 DEF Next, Flies

\* A hold the owner's wallet confirmed is behind a row of the ledger or on its way back.
THEOREM WalletIsReturned == Spec => []WalletReturned
<1>1. Init => WalletReturned
  BY DEF Init, WalletReturned
<1>2. ConceptsTypeOK /\ WalletReturned /\ [Next]_vars => WalletReturned'
  BY HeldStep
<1>3. QED BY <1>1, <1>2, ConceptsTypeCorrect, PTL DEF Spec

-----------------------------------------------------------------------------
(* What a concept that is shown rests on *)

\* The intent i has lost something the job j is made of.
Lost(i, j, k) == i.invalidation > j.invalidation \/ i.versions[k] > j.versions[k]

\* The job that flies rests on what the intent still has, or the intent tells it
\* apart: a lost source has another version, and a removed reference is lost.
FlightBacked ==
  ~Idle => LET j == flight.job
           IN /\ j.id = MaxTurns + Cardinality(intent.attempted)
              /\ j.invalidation <= intent.invalidation /\ \A k \in Sources : j.versions[k] <= intent.versions[k]
              /\ \A k \in j.sources : Lost(intent, j, k) \/ (k \in intent.sources /\ intent.consented)
              /\ \A r \in j.sources \cap Refs : Lost(intent, j, r) \/ removals[r] = j.seen[r]
              /\ \A d \in DOMAIN concepts : concepts[d].id \in j.sources /\ ~concepts[d].erased =>
                   \A r \in concepts[d].deps \cap Refs : removals[r] = j.seen[r]

\* Concepts have names of their own, younger than those they rest on and older
\* than the job that flies.
Named ==
  \A c \in DOMAIN concepts :
    /\ concepts[c].id <= MaxTurns + Cardinality(intent.attempted)
    /\ ~Idle => concepts[c].id < flight.job.id
    /\ \A d \in DOMAIN concepts : concepts[d].id = concepts[c].id => d = c
    /\ \A k \in concepts[c].deps \cap Jobs : k < concepts[c].id

\* A concept that is shown rests on what is there, and on all that the concepts
\* among it rest on, so that one withdrawal erases the whole line.
Backed ==
  \A c \in DOMAIN concepts : ~concepts[c].erased =>
    /\ ~session.revoked
    /\ concepts[c].deps \cap session.withdrawn = {}
    /\ \A r \in concepts[c].deps \cap Refs : removals[r] = concepts[c].seen[r]
    /\ \A d \in DOMAIN concepts : concepts[d].id \in concepts[c].deps =>
         ~concepts[d].erased /\ concepts[d].deps \subseteq concepts[c].deps

\* The concepts there were are still there, and none came.
SameNames ==
  /\ DOMAIN concepts' = DOMAIN concepts
  /\ \A c \in DOMAIN concepts :
       /\ concepts'[c].id = concepts[c].id /\ concepts'[c].deps = concepts[c].deps /\ concepts'[c].seen = concepts[c].seen
       /\ ~concepts'[c].erased => ~concepts[c].erased

\* A step after which what was taken back is as it was.
Plain ==
  /\ SameNames /\ \A c \in DOMAIN concepts : concepts'[c].erased = concepts[c].erased
  /\ removals' = removals /\ session'.withdrawn = session.withdrawn
  /\ session'.revoked => session.revoked

\* Erasing concepts leaves what they rest on.
LEMMA EraseDoes ==
  ASSUME ConceptsTypeOK, NEW C, Erase(C)
  PROVE  SameNames /\ \A c \in DOMAIN concepts : ~concepts'[c].erased => c \notin C
<1> DEFINE e(c) == [concepts[c] EXCEPT !.erased = TRUE]
<1>1. \A c \in DOMAIN concepts : concepts[c] \in ConceptRecord
  BY DEF ConceptsTypeOK
<1>2. \A c \in DOMAIN concepts : e(c).erased /\ e(c).id = concepts[c].id /\ e(c).deps = concepts[c].deps
                                  /\ e(c).seen = concepts[c].seen
  BY <1>1 DEF ConceptRecord
<1>3. concepts' = [c \in DOMAIN concepts |-> IF c \in C THEN e(c) ELSE concepts[c]]
  BY DEF Erase
<1> HIDE DEF e
<1>4. QED BY <1>2, <1>3 DEF SameNames

\* A vote or an archived concept rests on what it rested on.
LEMMA JudgeIsPlain == ASSUME ConceptsTypeOK, NEW c \in DOMAIN concepts, NEW liked \in BOOLEAN, Judge(c, liked) PROVE Plain
<1>0. concepts[c] \in ConceptRecord /\ UNCHANGED <<session, removals>>
  BY DEF ConceptsTypeOK, Judge
<1> DEFINE e == [concepts[c] EXCEPT !.liked = TRUE]
           f == [concepts[c] EXCEPT !.liked = FALSE, !.archived = TRUE]
<1>1. /\ e.id = concepts[c].id /\ e.deps = concepts[c].deps /\ e.seen = concepts[c].seen /\ e.erased = concepts[c].erased
      /\ f.id = concepts[c].id /\ f.deps = concepts[c].deps /\ f.seen = concepts[c].seen /\ f.erased = concepts[c].erased
  BY <1>0 DEF ConceptRecord
<1>2. concepts' = [concepts EXCEPT ![c] = e] \/ concepts' = [concepts EXCEPT ![c] = f]
  BY DEF Judge
<1> HIDE DEF e, f
<1>3. DOMAIN concepts' = DOMAIN concepts /\ \A d \in DOMAIN concepts : d # c => concepts'[d] = concepts[d]
  BY <1>2
<1>4. concepts'[c] \in {e, f}
  BY <1>2
<1>5. QED BY <1>0, <1>1, <1>3, <1>4 DEF Plain, SameNames

\* Only the person, the host and a finished render change what concepts rest on.
LEMMA StepKinds ==
  ASSUME ConceptsTypeOK, [Next]_vars
  PROVE  \/ Plain \/ Revoke \/ Complete
         \/ \E t \in Turns, expired \in BOOLEAN : Withdraw(t, expired)
         \/ \E r \in Refs : RemoveReference(r)
<1>0. session \in SessionRecord
  BY DEF ConceptsTypeOK
<1>1. UNCHANGED <<session, removals, concepts>> => Plain
  BY DEF Plain, SameNames
<1>2. CASE UNCHANGED vars \/ Abort \/ OtherRender \/ NextDay \/ HourPasses \/ Tick \/ Restart
  BY <1>1, <1>2 DEF vars, visit, Abort, OtherRender, NextDay, HourPasses, Tick, Restart
<1>3. CASE Admit \/ AskWallet \/ Refused \/ Consume \/ Dispatch \/ Broken \/ Rendered \/ Covered \/ Unpublished
  BY <1>1, <1>3 DEF visit, Admit, AskWallet, Refused, Consume, Dispatch, Broken, Rendered, Covered, Unpublished
<1>4. CASE (\E room \in BOOLEAN : WalletHeld(room)) \/ (\E answered \in BOOLEAN : Return(answered))
  BY <1>1, <1>4 DEF visit, WalletHeld, Return
<1>5. CASE EndEligibility \/ (\E refs \in SUBSET Refs : Offer(refs)) \/ (\E t \in Turns : Ask(t))
  BY <1>1, <1>5 DEF EndEligibility, Offer, Ask
<1>6. CASE RecordTurn \/ (\E level \in Levels, heard \in BOOLEAN : Understood(level, heard))
           \/ (\E unchanged \in BOOLEAN : Grant(unchanged)) \/ Pause \/ Resume \/ ChooseVisuals
  <2>1. UNCHANGED <<removals, concepts>>
    BY <1>6 DEF RecordTurn, Understood, Grant, Pause, Resume, ChooseVisuals
  <2>2. session'.withdrawn = session.withdrawn /\ (session'.revoked => session.revoked)
    <3>1. CASE RecordTurn
      BY <1>0, <3>1 DEF RecordTurn, SessionRecord
    <3>2. CASE \E level \in Levels, heard \in BOOLEAN : Understood(level, heard)
      BY <1>0, <3>2 DEF Understood, SessionRecord
    <3>3. ASSUME NEW unchanged \in BOOLEAN, Grant(unchanged)
          PROVE  session'.withdrawn = session.withdrawn /\ (session'.revoked => session.revoked)
      <4> DEFINE v == IF unchanged /\ ~session.revoked THEN session.conversation ELSE session.consent + 1
                 w == session.consent + 1
      <4>1. session' = [session EXCEPT !.consent = w, !.revoked = FALSE, !.conversation = v]
        BY <1>0, <3>3 DEF Grant, SessionRecord
      <4> HIDE DEF v, w
      <4>2. QED BY <1>0, <4>1 DEF SessionRecord
    <3>4. CASE Pause \/ Resume \/ ChooseVisuals
      BY <1>0, <3>4 DEF Pause, Resume, ChooseVisuals, SessionRecord
    <3>5. QED BY <1>6, <3>1, <3>2, <3>3, <3>4
  <2>3. QED BY <2>1, <2>2 DEF Plain, SameNames
<1>7. ASSUME NEW c \in DOMAIN concepts, NEW liked \in BOOLEAN, Judge(c, liked) PROVE Plain
  BY <1>7, JudgeIsPlain
<1>8. QED BY <1>2, <1>3, <1>4, <1>5, <1>6, <1>7 DEF Next, PersonOrHost, Flies

\* Facts of the types that the next lemmas share.
LEMMA BackedTypes ==
  ASSUME ConceptsTypeOK
  PROVE  /\ intent \in IntentRecord /\ intent.invalidation \in Nat /\ \A k \in Sources : intent.versions[k] \in Nat
         /\ Cardinality(intent.attempted) \in Nat /\ MaxTurns \in Nat
         /\ \A c \in DOMAIN concepts :
              /\ concepts[c] \in ConceptRecord /\ concepts[c].id \in Jobs /\ concepts[c].id \in Nat
              /\ concepts[c].deps \subseteq Sources
         /\ ~Idle => /\ flight.job \in JobRecord /\ flight.job.id \in Nat /\ flight.job.sources \subseteq Sources
                     /\ flight.job.invalidation \in Nat /\ \A k \in Sources : flight.job.versions[k] \in Nat
<1>1. intent \in IntentRecord /\ Cardinality(intent.attempted) \in Nat
  BY FS_CardinalityType DEF ConceptsTypeOK
<1>2. intent.invalidation \in Nat /\ \A k \in Sources : intent.versions[k] \in Nat
  BY <1>1 DEF IntentRecord
<1>3. ASSUME NEW c \in DOMAIN concepts
      PROVE  /\ concepts[c] \in ConceptRecord /\ concepts[c].id \in Jobs /\ concepts[c].id \in Nat
             /\ concepts[c].deps \subseteq Sources
  <2>1. concepts[c] \in ConceptRecord
    BY DEF ConceptsTypeOK
  <2>2. QED BY <2>1, Numbers DEF ConceptRecord
<1>4. ASSUME ~Idle
      PROVE  /\ flight.job \in JobRecord /\ flight.job.id \in Nat /\ flight.job.sources \subseteq Sources
             /\ flight.job.invalidation \in Nat /\ \A k \in Sources : flight.job.versions[k] \in Nat
  <2>1. flight.job \in JobRecord
    BY <1>4, Aloft DEF FlightRecord
  <2>2. QED BY <2>1, Numbers DEF JobRecord
<1>5. QED BY <1>1, <1>2, <1>3, <1>4, Numbers

\* A flight that starts, or none, is backed when the step removed no reference.
LEMMA StartIsBacked ==
  ASSUME ConceptsTypeOK, ConceptsTypeOK', Ends \/ Starts, removals' = removals PROVE FlightBacked'
<1>1. CASE Ends
  BY <1>1 DEF Ends, FlightBacked, Idle
<1>2. CASE Starts
  <2>1. ~Idle'
    BY <1>2, FlightIsReal DEF Starts, Idle
  <2>2. intent' \in IntentRecord /\ intent'.invalidation \in Nat /\ \A k \in Sources : intent'.versions[k] \in Nat
    BY DEF ConceptsTypeOK, IntentRecord
  <2>3. QED BY <1>2, <2>1, <2>2 DEF Starts, FlightBacked
<1>3. QED BY <1>1, <1>2

\* What the intent has lost stays lost, and what it has not lost it has.
LEMMA StillBacked ==
  ASSUME ConceptsTypeOK, IntentTyped, ~Idle, FlightBacked
  PROVE  LET j == flight.job
         IN /\ j.invalidation <= intent'.invalidation /\ \A k \in Sources : j.versions[k] <= intent'.versions[k]
            /\ \A k \in j.sources : Lost(intent, j, k) => Lost(intent', j, k)
            /\ \A k \in j.sources : Lost(intent', j, k) \/ (k \in intent'.sources /\ intent'.consented)
<1> DEFINE j == flight.job
<1>1. /\ intent.invalidation \in Nat /\ j.invalidation \in Nat /\ j.sources \subseteq Sources
      /\ \A k \in Sources : intent.versions[k] \in Nat /\ j.versions[k] \in Nat
  BY BackedTypes
<1>2. intent'.invalidation \in Nat /\ \A k \in Sources : intent'.versions[k] \in Nat
  BY DEF IntentTyped, IntentRecord
<1>3. Later(intent, intent')
  BY DEF IntentTyped
<1>4. /\ j.invalidation <= intent.invalidation /\ \A k \in Sources : j.versions[k] <= intent.versions[k]
      /\ \A k \in j.sources : Lost(intent, j, k) \/ (k \in intent.sources /\ intent.consented)
  BY DEF FlightBacked
<1> HIDE DEF j
<1>5. j.invalidation <= intent'.invalidation /\ \A k \in Sources : j.versions[k] <= intent'.versions[k]
  BY <1>1, <1>2, <1>3, <1>4 DEF Later
<1>6. ASSUME NEW k \in j.sources PROVE Lost(intent, j, k) => Lost(intent', j, k)
  BY <1>1, <1>2, <1>3, <1>4 DEF Later, Lost
<1>7. ASSUME NEW k \in j.sources PROVE Lost(intent', j, k) \/ (k \in intent'.sources /\ intent'.consented)
  <2> SUFFICES ASSUME ~Lost(intent', j, k) PROVE k \in intent'.sources /\ intent'.consented
    OBVIOUS
  <2>1. k \in intent.sources /\ intent.consented /\ k \in Sources
    BY <1>1, <1>4, <1>6
  <2>2. intent'.invalidation = intent.invalidation /\ intent'.versions[k] = intent.versions[k]
    BY <1>1, <1>2, <1>3, <1>4, <2>1 DEF Later, Lost
  <2>3. QED BY <1>3, <2>1, <2>2 DEF Later
<1>8. QED BY <1>5, <1>6, <1>7 DEF j

\* A flight that goes on while no reference is removed and no concept comes.
LEMMA FlightStaysBacked ==
  ASSUME ConceptsTypeOK, ConceptsTypeOK', IntentTyped, GoesOn, FlightBacked, SameNames, removals' = removals
  PROVE  FlightBacked'
<1>1. CASE Idle
  BY <1>1 DEF GoesOn, FlightBacked, Idle
<1>2. CASE ~Idle
  <2>1. flight'.job = flight.job /\ intent'.attempted = intent.attempted
    BY <1>2 DEF GoesOn
  <2>2. flight.job.sources \subseteq Sources
    BY <1>2, BackedTypes
  <2> DEFINE j == flight.job
  <2>0. /\ \A q \in j.sources \cap Refs : Lost(intent, j, q) \/ removals[q] = j.seen[q]
        /\ \A d \in DOMAIN concepts : concepts[d].id \in j.sources /\ ~concepts[d].erased =>
             \A q \in concepts[d].deps \cap Refs : removals[q] = j.seen[q]
        /\ j.id = MaxTurns + Cardinality(intent.attempted)
    BY <1>2 DEF FlightBacked
  <2>3. /\ j.invalidation <= intent'.invalidation /\ \A k \in Sources : j.versions[k] <= intent'.versions[k]
        /\ \A k \in j.sources : Lost(intent, j, k) => Lost(intent', j, k)
        /\ \A k \in j.sources : Lost(intent', j, k) \/ (k \in intent'.sources /\ intent'.consented)
    BY <1>2, StillBacked
  <2>5. flight'.job = j
    BY <2>1
  <2> HIDE DEF j
  <2>4. /\ j.id = MaxTurns + Cardinality(intent'.attempted)
        /\ \A r \in j.sources \cap Refs : Lost(intent', j, r) \/ removals'[r] = j.seen[r]
        /\ \A d \in DOMAIN concepts' : concepts'[d].id \in j.sources /\ ~concepts'[d].erased =>
             \A r \in concepts'[d].deps \cap Refs : removals'[r] = j.seen[r]
    <3>1. j.id = MaxTurns + Cardinality(intent'.attempted)
      BY <2>0, <2>1
    <3>2. \A r \in j.sources \cap Refs : Lost(intent', j, r) \/ removals'[r] = j.seen[r]
      BY <2>0, <2>3
    <3>3. \A d \in DOMAIN concepts' : concepts'[d].id \in j.sources /\ ~concepts'[d].erased =>
             \A r \in concepts'[d].deps \cap Refs : removals'[r] = j.seen[r]
      BY <2>0 DEF SameNames
    <3>4. QED BY <3>1, <3>2, <3>3
  <2>6. QED BY <2>3, <2>4, <2>5 DEF FlightBacked
<1>3. QED BY <1>1, <1>2

\* Names stay apart while no concept comes.
LEMMA NamesStay ==
  ASSUME ConceptsTypeOK, ConceptsTypeOK', StepFacts, Named, SameNames
  PROVE  Named'
<1>1. Cardinality(intent.attempted) \in Nat /\ Cardinality(intent'.attempted) \in Nat /\ MaxTurns \in Nat
      /\ \A c \in DOMAIN concepts : concepts[c].id \in Nat
  BY BackedTypes, FS_CardinalityType DEF ConceptsTypeOK
<1>2. Cardinality(intent'.attempted) >= Cardinality(intent.attempted)
  BY <1>1 DEF StepFacts, GoesOn, Ends, Starts
<1>3. ASSUME NEW c \in DOMAIN concepts, ~Idle' PROVE concepts[c].id < flight'.job.id
  <2>1. CASE GoesOn
    BY <1>3, <2>1 DEF GoesOn, Named, Idle
  <2>2. CASE Starts
    BY <1>1, <2>2 DEF Starts, Named
  <2>3. QED BY <1>3, <2>1, <2>2 DEF StepFacts, Ends, Idle
<1>4. QED BY <1>1, <1>2, <1>3 DEF Named, SameNames

\* A step after which nothing more is taken back.
LEMMA PlainKeeps ==
  ASSUME ConceptsTypeOK, ConceptsTypeOK', StepFacts, Plain, FlightBacked, Named, Backed
  PROVE  FlightBacked' /\ Named' /\ Backed'
<1>1. IntentTyped /\ SameNames /\ removals' = removals
  BY DEF StepFacts, Plain
<1>2. FlightBacked'
  <2>1. CASE GoesOn
    BY <1>1, <2>1, FlightStaysBacked
  <2>2. CASE Ends \/ Starts
    BY <1>1, <2>2, StartIsBacked
  <2>3. QED BY <2>1, <2>2 DEF StepFacts
<1>3. Named'
  BY <1>1, NamesStay
<1>4. Backed'
  BY DEF Plain, SameNames, Backed
<1>5. QED BY <1>2, <1>3, <1>4

\* A source that is taken back erases every concept in whose line it is.
LEMMA LineErased ==
  ASSUME ConceptsTypeOK, Backed, NEW k, Erase(Resting(k))
  PROVE  /\ SameNames
         /\ \A c \in DOMAIN concepts : ~concepts'[c].erased =>
              /\ ~concepts[c].erased /\ k \notin concepts[c].deps
              /\ \A d \in DOMAIN concepts : concepts[d].id \in concepts[c].deps =>
                   ~concepts'[d].erased /\ concepts[d].deps \subseteq concepts[c].deps
<1>1. SameNames /\ \A c \in DOMAIN concepts : ~concepts'[c].erased => c \notin Resting(k)
  BY EraseDoes
<1>2. \A c \in DOMAIN concepts : concepts'[c].erased => concepts[c].erased \/ k \in concepts[c].deps
  BY DEF Erase, Resting
<1>3. ASSUME NEW c \in DOMAIN concepts, ~concepts'[c].erased
      PROVE  /\ ~concepts[c].erased /\ k \notin concepts[c].deps
             /\ \A d \in DOMAIN concepts : concepts[d].id \in concepts[c].deps =>
                  ~concepts'[d].erased /\ concepts[d].deps \subseteq concepts[c].deps
  <2>1. ~concepts[c].erased /\ k \notin concepts[c].deps
    BY <1>1, <1>3 DEF SameNames, Resting
  <2>2. QED BY <1>2, <2>1 DEF Backed
<1>4. QED BY <1>1, <1>3

\* A withdrawn turn takes with it the artifacts, and the flight, that rest on it.
LEMMA WithdrawKeeps ==
  ASSUME ConceptsTypeOK, ConceptsTypeOK', PendingFlown, FlightBacked, Named, Backed,
         NEW t \in Turns, NEW expired \in BOOLEAN, Withdraw(t, expired)
  PROVE  FlightBacked' /\ Named' /\ Backed'
<1>1. StepFacts /\ Erase(Resting(t)) /\ removals' = removals
  BY WithdrawStep DEF Withdraw
<1>2. session'.withdrawn = session.withdrawn \cup {t} /\ session'.revoked = session.revoked
  BY DEF Withdraw, ConceptsTypeOK, SessionRecord
<1>3. /\ SameNames
      /\ \A c \in DOMAIN concepts : ~concepts'[c].erased =>
           /\ ~concepts[c].erased /\ t \notin concepts[c].deps
           /\ \A d \in DOMAIN concepts : concepts[d].id \in concepts[c].deps =>
                ~concepts'[d].erased /\ concepts[d].deps \subseteq concepts[c].deps
  BY <1>1, LineErased
<1>4. FlightBacked'
  <2>1. CASE GoesOn
    BY <1>1, <1>3, <2>1, FlightStaysBacked DEF StepFacts
  <2>2. CASE Ends \/ Starts
    BY <1>1, <2>2, StartIsBacked
  <2>3. QED BY <1>1, <2>1, <2>2 DEF StepFacts
<1>5. Named'
  BY <1>1, <1>3, NamesStay
<1>6. ASSUME NEW c \in DOMAIN concepts', ~concepts'[c].erased
      PROVE  /\ ~session'.revoked /\ concepts'[c].deps \cap session'.withdrawn = {}
             /\ \A r \in concepts'[c].deps \cap Refs : removals'[r] = concepts'[c].seen[r]
             /\ \A d \in DOMAIN concepts' : concepts'[d].id \in concepts'[c].deps =>
                  ~concepts'[d].erased /\ concepts'[d].deps \subseteq concepts'[c].deps
  <2>1. c \in DOMAIN concepts /\ concepts'[c].deps = concepts[c].deps /\ concepts'[c].seen = concepts[c].seen
        /\ ~concepts[c].erased /\ t \notin concepts[c].deps
    BY <1>3, <1>6 DEF SameNames
  <2>2. /\ ~session'.revoked /\ concepts'[c].deps \cap session'.withdrawn = {}
        /\ \A r \in concepts'[c].deps \cap Refs : removals'[r] = concepts'[c].seen[r]
    BY <1>1, <1>2, <2>1 DEF Backed
  <2>3. QED BY <1>3, <1>6, <2>1, <2>2 DEF SameNames
<1>7. QED BY <1>4, <1>5, <1>6 DEF Backed

\* A flight that was planned with the reference learns that it has gone.
LEMMA RemovedIsLost ==
  ASSUME ConceptsTypeOK, ConceptsTypeOK', PendingFlown, FlightBacked, Backed, NEW r \in Refs, RemoveReference(r)
  PROVE  FlightBacked'
<1>1. StepFacts /\ Erase(Resting(r)) /\ removals' = [removals EXCEPT ![r] = @ + 1] /\ removals \in [Refs -> Nat]
  BY RemoveReferenceStep DEF RemoveReference, ConceptsTypeOK
<1>2. SameNames /\ \A c \in DOMAIN concepts : ~concepts'[c].erased => r \notin concepts[c].deps
  BY <1>1, LineErased
<1>3. GoesOn
  <2>1. flight' = Warned(intent', session, concepts', offered')
    BY DEF RemoveReference
  <2>2. r \in Sources /\ intent \in IntentRecord
    BY DEF Sources, ConceptsTypeOK
  <2> DEFINE i == SourceRemoved(intent, r)
  <2>3. i \in IntentRecord /\ SameJobs(intent, i)
    BY <2>2, RemovedFacts
  <2>4. intent' = i \/ intent' = [i EXCEPT !.pending = NoJob]
    BY DEF RemoveReference
  <2> HIDE DEF i
  <2>5. intent'.attempted = intent.attempted /\ intent'.pending \in {intent.pending, NoJob}
    BY <2>3, <2>4, ClearedFacts DEF SameJobs
  <2>6. QED BY <2>1, <2>5, WarnedFacts DEF GoesOn
<1>4. CASE Idle
  BY <1>3, <1>4 DEF GoesOn, FlightBacked, Idle
<1>5. CASE ~Idle
  <2> DEFINE j == flight.job
  <2>1. /\ j.invalidation <= intent'.invalidation /\ \A k \in Sources : j.versions[k] <= intent'.versions[k]
        /\ \A k \in j.sources : Lost(intent, j, k) => Lost(intent', j, k)
        /\ \A k \in j.sources : Lost(intent', j, k) \/ (k \in intent'.sources /\ intent'.consented)
    BY <1>1, <1>5, StillBacked DEF StepFacts
  <2>0. /\ \A q \in j.sources \cap Refs : Lost(intent, j, q) \/ removals[q] = j.seen[q]
        /\ \A d \in DOMAIN concepts : concepts[d].id \in j.sources /\ ~concepts[d].erased =>
             \A q \in concepts[d].deps \cap Refs : removals[q] = j.seen[q]
        /\ j.id = MaxTurns + Cardinality(intent.attempted)
    BY <1>5 DEF FlightBacked
  <2>3. j.id = MaxTurns + Cardinality(intent'.attempted) /\ flight'.job = j
    BY <1>3, <1>5, <2>0 DEF GoesOn
  <2> HIDE DEF j
  <2>2. r \in j.sources => Lost(intent', j, r)
    <3>1. r \notin intent'.sources
      <4> DEFINE i == SourceRemoved(intent, r)
      <4>1. i \in IntentRecord /\ r \notin i.sources
        BY RemovedFacts DEF Sources, ConceptsTypeOK
      <4>2. intent' = i \/ intent' = [i EXCEPT !.pending = NoJob]
        BY DEF RemoveReference
      <4> HIDE DEF i
      <4>3. QED BY <4>1, <4>2, ClearedFacts
    <3>2. QED BY <2>1, <3>1
  <2>4. \A q \in j.sources \cap Refs : Lost(intent', j, q) \/ removals'[q] = j.seen[q]
    BY <1>1, <2>0, <2>1, <2>2
  <2>5. \A d \in DOMAIN concepts' : concepts'[d].id \in j.sources /\ ~concepts'[d].erased =>
             \A q \in concepts'[d].deps \cap Refs : removals'[q] = j.seen[q]
    BY <1>1, <1>2, <2>0 DEF SameNames
  <2>6. QED BY <2>1, <2>3, <2>4, <2>5 DEF FlightBacked
<1>6. QED BY <1>4, <1>5

\* A removed reference takes with it the artifacts, and the flight, that rest on it.
LEMMA RemoveReferenceKeeps ==
  ASSUME ConceptsTypeOK, ConceptsTypeOK', PendingFlown, FlightBacked, Named, Backed, NEW r \in Refs, RemoveReference(r)
  PROVE  FlightBacked' /\ Named' /\ Backed'
<1>1. /\ StepFacts /\ Erase(Resting(r)) /\ removals' = [removals EXCEPT ![r] = @ + 1] /\ removals \in [Refs -> Nat]
      /\ session' = session
  BY RemoveReferenceStep DEF RemoveReference, ConceptsTypeOK
<1>2. /\ SameNames
      /\ \A c \in DOMAIN concepts : ~concepts'[c].erased =>
           /\ ~concepts[c].erased /\ r \notin concepts[c].deps
           /\ \A d \in DOMAIN concepts : concepts[d].id \in concepts[c].deps =>
                ~concepts'[d].erased /\ concepts[d].deps \subseteq concepts[c].deps
  BY <1>1, LineErased
<1>3. FlightBacked' /\ Named'
  BY <1>1, <1>2, RemovedIsLost, NamesStay
<1>4. ASSUME NEW c \in DOMAIN concepts', ~concepts'[c].erased
      PROVE  /\ ~session'.revoked /\ concepts'[c].deps \cap session'.withdrawn = {}
             /\ \A q \in concepts'[c].deps \cap Refs : removals'[q] = concepts'[c].seen[q]
             /\ \A d \in DOMAIN concepts' : concepts'[d].id \in concepts'[c].deps =>
                  ~concepts'[d].erased /\ concepts'[d].deps \subseteq concepts'[c].deps
  <2>1. c \in DOMAIN concepts /\ concepts'[c].deps = concepts[c].deps /\ concepts'[c].seen = concepts[c].seen
        /\ ~concepts[c].erased /\ r \notin concepts[c].deps
    BY <1>2, <1>4 DEF SameNames
  <2>2. ~session'.revoked /\ concepts'[c].deps \cap session'.withdrawn = {}
    BY <1>1, <2>1 DEF Backed
  <2>3. \A q \in concepts'[c].deps \cap Refs : removals'[q] = concepts'[c].seen[q]
    BY <1>1, <2>1 DEF Backed
  <2>4. QED BY <1>2, <1>4, <2>1, <2>2, <2>3 DEF SameNames
<1>5. QED BY <1>3, <1>4 DEF Backed

\* A revoked consent leaves no concept.
LEMMA RevokeKeeps ==
  ASSUME ConceptsTypeOK, ConceptsTypeOK', PendingFlown, FlightBacked, Named, Backed, Revoke
  PROVE  FlightBacked' /\ Named' /\ Backed'
<1>1. StepFacts /\ Erase(DOMAIN concepts) /\ removals' = removals
  BY RevokeStep DEF Revoke
<1>2. SameNames /\ \A c \in DOMAIN concepts : concepts'[c].erased
  <2>1. SameNames /\ \A c \in DOMAIN concepts : ~concepts'[c].erased => c \notin DOMAIN concepts
    BY <1>1, EraseDoes
  <2>2. QED BY <2>1
<1>3. FlightBacked'
  <2>1. CASE GoesOn
    BY <1>1, <1>2, <2>1, FlightStaysBacked DEF StepFacts
  <2>2. CASE Ends \/ Starts
    BY <1>1, <2>2, StartIsBacked
  <2>3. QED BY <1>1, <2>1, <2>2 DEF StepFacts
<1>4. Named'
  BY <1>1, <1>2, NamesStay
<1>5. Backed'
  BY <1>2 DEF Backed, SameNames
<1>6. QED BY <1>3, <1>4, <1>5

\* A result that is stored stands: all it was made of is still there.
LEMMA ResultStands ==
  ASSUME ConceptsTypeOK, FlightBacked, Named, Backed, Complete
  PROVE  LET j == flight.job
             D == Dependencies(j)
         IN /\ D \cap session.withdrawn = {}
            /\ \A r \in D \cap Refs : removals[r] = j.seen[r]
            /\ \A d \in DOMAIN concepts : concepts[d].id \in D =>
                 ~concepts[d].erased /\ concepts[d].deps \subseteq D
            /\ \A k \in D \cap Jobs : k < j.id
<1> DEFINE j == flight.job
           D == Dependencies(j)
           n == Synced(intent, session, concepts, offered)
           there == {c \in DOMAIN concepts : concepts[c].id \in j.sources /\ ~concepts[c].erased}
<1>1. ~Idle /\ Stands(n, j) /\ j.sources \cap session.withdrawn = {}
  BY AtAloft DEF Complete
<1>2. D = j.sources \cup UNION {concepts[c].deps : c \in there}
  BY DEF Dependencies
<1>3. /\ j.sources \subseteq Sources /\ j.invalidation \in Nat /\ intent.invalidation \in Nat /\ j.id \in Nat
      /\ \A k \in Sources : intent.versions[k] \in Nat /\ j.versions[k] \in Nat
      /\ \A c \in DOMAIN concepts : concepts[c].id \in Jobs /\ concepts[c].id \in Nat /\ concepts[c].deps \subseteq Sources
  BY <1>1, BackedTypes
<1>4. /\ session \in SessionRecord /\ concepts \in Seq(ConceptRecord) /\ offered \in SUBSET Refs /\ intent \in IntentRecord
  BY DEF ConceptsTypeOK
<1>5. n \in IntentRecord /\ Later(intent, n) /\ n.sources = Active(session) \cup Chosen(concepts, offered)
  BY <1>4, SyncedFacts
<1>6. n.invalidation \in Nat /\ \A k \in Sources : n.versions[k] \in Nat
  BY <1>5 DEF IntentRecord
<1>7. \A r \in j.sources \cap Refs : removals[r] = j.seen[r]
  <2>1. ASSUME NEW r \in j.sources PROVE ~Lost(intent, j, r)
    <3>1. n.invalidation = j.invalidation /\ n.versions[r] = j.versions[r] /\ r \in Sources
      BY <1>1, <1>3 DEF Stands
    <3>2. intent.invalidation <= n.invalidation /\ intent.versions[r] <= n.versions[r]
      BY <1>3, <1>5, <1>6, <3>1 DEF Later
    <3> HIDE DEF n, j
    <3>3. QED BY <1>3, <1>6, <3>1, <3>2 DEF Lost
  <2>2. QED BY <1>1, <2>1 DEF FlightBacked
<1>8. ASSUME NEW k \in j.sources \cap Jobs PROVE \E c \in there : concepts[c].id = k
  <2>1. k \in n.sources
    BY <1>1 DEF Stands
  <2>2. k \notin Turns /\ k \notin Refs
    BY Numbers, ConceptsAssumption DEF Turns, Jobs
  <2>3. k \notin Active(session) /\ k \notin offered
    BY <1>4, <2>2, InputTyped
  <2>4. k \in Chosen(concepts, offered)
    BY <1>5, <2>1, <2>3
  <2>5. \E c \in DOMAIN concepts : concepts[c].id = k /\ ~concepts[c].erased
    BY <1>4, <2>3, <2>4, ChosenShown
  <2>6. QED BY <2>5
<1> HIDE DEF n, D
<1>9. D \cap session.withdrawn = {}
  BY <1>1, <1>2 DEF Backed
<1>10. \A r \in D \cap Refs : removals[r] = j.seen[r]
  BY <1>1, <1>2, <1>7 DEF FlightBacked
<1>11. ASSUME NEW d \in DOMAIN concepts, concepts[d].id \in D
       PROVE  ~concepts[d].erased /\ concepts[d].deps \subseteq D
  <2>1. CASE concepts[d].id \in j.sources
    <3>1. PICK c \in there : concepts[c].id = concepts[d].id
      BY <1>3, <1>8, <2>1
    <3>2. c = d
      BY <3>1 DEF Named
    <3>3. QED BY <1>2, <3>1, <3>2
  <2>2. CASE \E c \in there : concepts[d].id \in concepts[c].deps
    <3>1. PICK c \in there : concepts[d].id \in concepts[c].deps
      BY <2>2
    <3>2. ~concepts[d].erased /\ concepts[d].deps \subseteq concepts[c].deps
      BY <3>1 DEF Backed
    <3>3. QED BY <1>2, <3>1, <3>2
  <2>3. QED BY <1>2, <1>11, <2>1, <2>2
<1>12. ASSUME NEW k \in D \cap Jobs PROVE k < j.id
  <2>1. CASE k \in j.sources
    <3>1. PICK c \in there : concepts[c].id = k
      BY <1>8, <2>1
    <3>2. QED BY <1>1, <3>1 DEF Named
  <2>2. CASE \E c \in there : k \in concepts[c].deps
    <3>1. PICK c \in there : k \in concepts[c].deps
      BY <2>2
    <3>2. k < concepts[c].id /\ concepts[c].id < j.id
      BY <1>1, <3>1 DEF Named
    <3>3. k \in Nat
      BY Numbers
    <3>4. QED BY <1>3, <3>1, <3>2, <3>3
  <2>3. QED BY <1>2, <2>1, <2>2
<1>13. QED BY <1>9, <1>10, <1>11, <1>12 DEF D

\* The stored concept is the youngest, and backed like the others.
LEMMA CompleteKeeps ==
  ASSUME ConceptsTypeOK, ConceptsTypeOK', PendingFlown, FlightBacked, Named, Backed, Complete
  PROVE  FlightBacked' /\ Named' /\ Backed'
<1> DEFINE j == flight.job
           D == Dependencies(j)
           e == [id |-> j.id, deps |-> D, seen |-> j.seen, liked |-> FALSE, archived |-> FALSE, erased |-> FALSE]
           new == Len(concepts) + 1
<1>1. /\ StepFacts /\ (Ends \/ Starts) /\ ~Idle /\ removals' = removals /\ session' = session
      /\ concepts' = Append(concepts, e) /\ ~session.revoked
  BY CompleteStep, AtAloft DEF Complete, visit
<1>2. FlightBacked'
  BY <1>1, StartIsBacked
<1>3. /\ D \cap session.withdrawn = {}
      /\ \A r \in D \cap Refs : removals[r] = j.seen[r]
      /\ \A d \in DOMAIN concepts : concepts[d].id \in D => ~concepts[d].erased /\ concepts[d].deps \subseteq D
      /\ \A k \in D \cap Jobs : k < j.id
  BY ResultStands
<1>4. e.id = j.id /\ e.deps = D /\ e.seen = j.seen /\ ~e.erased
  OBVIOUS
<1>5. concepts \in Seq(ConceptRecord) /\ j.id \in Jobs /\ j.id \in Nat
  BY <1>1, BackedTypes DEF ConceptsTypeOK, JobRecord
<1>6. e \in ConceptRecord
  <2>1. j \in JobRecord
    BY <1>1, BackedTypes
  <2>2. QED BY <2>1, StoredTyped
<1> HIDE DEF e, D, j
<1>7. /\ DOMAIN concepts' = DOMAIN concepts \cup {new} /\ new \notin DOMAIN concepts /\ concepts'[new] = e
      /\ \A c \in DOMAIN concepts : concepts'[c] = concepts[c]
  BY <1>1, <1>5, <1>6, AppendProperties, LenProperties
<1> HIDE DEF new
<1>8. \A c \in DOMAIN concepts : concepts[c].id < j.id /\ concepts[c].id \in Nat /\ concepts[c].id \in Jobs
  BY <1>1, BackedTypes DEF Named, j
<1>9. Named'
  <2>1. j.id = MaxTurns + Cardinality(intent.attempted) /\ Cardinality(intent.attempted) \in Nat /\ MaxTurns \in Nat
    BY <1>1, BackedTypes DEF FlightBacked, j
  <2>2. Cardinality(intent'.attempted) \in Nat /\ Cardinality(intent'.attempted) >= Cardinality(intent.attempted)
    BY <1>1, <2>1, FS_CardinalityType DEF ConceptsTypeOK, Ends, Starts
  <2>3. ~Idle' => j.id < flight'.job.id
    BY <1>1, <2>1, <2>2 DEF Ends, Starts, Idle
  <2>4. ~Idle' => flight'.job.id \in Nat
    BY <1>1, <2>2, <2>1 DEF Ends, Starts, Idle
  <2>5. ASSUME NEW c \in DOMAIN concepts'
        PROVE  /\ concepts'[c].id <= MaxTurns + Cardinality(intent'.attempted)
               /\ ~Idle' => concepts'[c].id < flight'.job.id
               /\ \A d \in DOMAIN concepts' : concepts'[d].id = concepts'[c].id => d = c
               /\ \A k \in concepts'[c].deps \cap Jobs : k < concepts'[c].id
    <3>1. CASE c = new
      <4>1. concepts'[c].id = j.id /\ concepts'[c].deps = D
        BY <1>4, <1>7, <3>1
      <4>2. \A d \in DOMAIN concepts' : concepts'[d].id = j.id => d = c
        BY <1>5, <1>7, <1>8, <3>1
      <4>3. j.id <= MaxTurns + Cardinality(intent'.attempted)
        BY <2>1, <2>2
      <4>4. QED BY <1>3, <2>3, <4>1, <4>2, <4>3
    <3>2. CASE c \in DOMAIN concepts
      <4>1. concepts'[c] = concepts[c] /\ concepts[c].id < j.id /\ concepts[c].id \in Nat
        BY <1>7, <1>8, <3>2
      <4>2. \A d \in DOMAIN concepts' : concepts'[d].id = concepts'[c].id => d = c
        <5>1. concepts'[new].id = j.id
          BY <1>4, <1>7
        <5>2. QED BY <1>5, <1>7, <3>2, <4>1, <5>1 DEF Named
      <4>3. ~Idle' => concepts'[c].id < flight'.job.id
        BY <1>5, <2>3, <2>4, <4>1
      <4>4. concepts'[c].id <= MaxTurns + Cardinality(intent'.attempted)
        BY <1>5, <2>1, <2>2, <4>1
      <4>5. QED BY <3>2, <4>1, <4>2, <4>3, <4>4 DEF Named
    <3>3. QED BY <1>7, <3>1, <3>2
  <2>6. QED BY <2>5 DEF Named
<1>10. ASSUME NEW c \in DOMAIN concepts', ~concepts'[c].erased
       PROVE  /\ ~session'.revoked /\ concepts'[c].deps \cap session'.withdrawn = {}
              /\ \A r \in concepts'[c].deps \cap Refs : removals'[r] = concepts'[c].seen[r]
              /\ \A d \in DOMAIN concepts' : concepts'[d].id \in concepts'[c].deps =>
                   ~concepts'[d].erased /\ concepts'[d].deps \subseteq concepts'[c].deps
  <2>1. CASE c = new
    <3>1. concepts'[c].deps = D /\ concepts'[c].seen = j.seen /\ concepts'[c] = e
      BY <1>4, <1>7, <2>1
    <3>2. ASSUME NEW d \in DOMAIN concepts', concepts'[d].id \in D PROVE ~concepts'[d].erased /\ concepts'[d].deps \subseteq D
      <4>1. CASE d = new
        BY <1>4, <1>7, <4>1
      <4>2. CASE d \in DOMAIN concepts
        BY <1>3, <1>7, <3>2, <4>2
      <4>3. QED BY <1>7, <4>1, <4>2
    <3>3. QED BY <1>1, <1>3, <3>1, <3>2
  <2>2. CASE c \in DOMAIN concepts
    <3>1. concepts'[c] = concepts[c] /\ ~concepts[c].erased
      BY <1>7, <1>10, <2>2
    <3>2. e.id \notin concepts[c].deps
      <4>1. \A k \in concepts[c].deps \cap Jobs : k < concepts[c].id
        BY <2>2 DEF Named
      <4>2. QED BY <1>4, <1>5, <1>8, <2>2, <4>1
    <3>3. ASSUME NEW d \in DOMAIN concepts', concepts'[d].id \in concepts[c].deps
          PROVE  ~concepts'[d].erased /\ concepts'[d].deps \subseteq concepts[c].deps
      <4>1. d \in DOMAIN concepts /\ concepts'[d] = concepts[d]
        BY <1>7, <3>2, <3>3
      <4>2. QED BY <2>2, <3>1, <3>3, <4>1 DEF Backed
    <3>4. QED BY <1>1, <2>2, <3>1, <3>3 DEF Backed
  <2>3. QED BY <1>7, <2>1, <2>2
<1>11. QED BY <1>2, <1>9, <1>10 DEF Backed

\* All that a flight and a concept rest on is kept by every step.
LEMMA BackedStep ==
  ASSUME ConceptsTypeOK, PendingFlown, FlightBacked, Named, Backed, [Next]_vars
  PROVE  FlightBacked' /\ Named' /\ Backed'
<1>1. StepFacts /\ ConceptsTypeOK'
  BY EveryStep, StepKeeps
<1>2. CASE Plain
  BY <1>1, <1>2, PlainKeeps
<1>3. CASE \E t \in Turns, expired \in BOOLEAN : Withdraw(t, expired)
  BY <1>1, <1>3, WithdrawKeeps
<1>4. CASE \E r \in Refs : RemoveReference(r)
  BY <1>1, <1>4, RemoveReferenceKeeps
<1>5. CASE Revoke
  BY <1>1, <1>5, RevokeKeeps
<1>6. CASE Complete
  BY <1>1, <1>6, CompleteKeeps
<1>7. QED BY <1>2, <1>3, <1>4, <1>5, <1>6, StepKinds

\* Whatever was withdrawn, removed or revoked in the awaits of a render
\* (concept-intent.js conceptResultDisposition, storage.js completeConcept and the
\* erasures), a concept that is shown rests on nothing that was taken back.
THEOREM ShownIsBacked == Spec => []ArtifactsBacked
<1>1. Init => FlightBacked /\ Named /\ Backed
  <2> SUFFICES ASSUME Init PROVE FlightBacked /\ Named /\ Backed
    OBVIOUS
  <2>1. flight = NoFlight /\ DOMAIN concepts = {}
    BY DEF Init
  <2>2. QED BY <2>1 DEF FlightBacked, Named, Backed, Idle
<1>2. (ConceptsTypeOK /\ PendingFlown) /\ (FlightBacked /\ Named /\ Backed) /\ [Next]_vars
        => (FlightBacked /\ Named /\ Backed)'
  BY BackedStep
<1>3. Backed => ArtifactsBacked
  BY DEF Backed, ArtifactsBacked
<1>4. QED BY <1>1, <1>2, <1>3, ConceptsTypeCorrect, PTL DEF Spec
=============================================================================
