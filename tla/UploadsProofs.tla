--------------------------- MODULE UploadsProofs ---------------------------
(***************************************************************************)
(* Theorems about Uploads for every number of conversations, requests and  *)
(* files and every limit: what the reservation bounds, that one job is     *)
(* loaded at a time, and that an acknowledged withdrawal is quiet.         *)
(***************************************************************************)
EXTENDS Uploads, FiniteSetTheorems, TLAPS

-----------------------------------------------------------------------------
(* The inductive invariant *)

Stages == {"none", "new", "waiting", "left", "granted", "evaluating", "consuming", "parsing"}
Jobs == [stage : Stages, aborted : BOOLEAN, consent : Nat, choice : {0, 1}]
Revisions == [consent : Nat, choice : {0, 1}, withdrawn : BOOLEAN, erased : BOOLEAN]
Acknowledgements == [awaits : SUBSET Files, state : {"none", "waiting", "given"}]

Loaded(f) == job[f].stage \in {"granted", "evaluating", "consuming", "parsing"}

\* The slot: the job that has its bytes loaded has it, and owns the child process.
OneLoaded ==
  /\ \A f, g \in Files : Loaded(f) /\ Loaded(g) => f = g
  /\ \A f \in Files : Loaded(f) => extracting
  /\ \A f \in parsers : At(f, "parsing")

Opened(s) == {c \in OpenCalls : SessionOf[c] = s}

\* The counters count what is reserved.
Counted ==
  /\ pending = Cardinality(OpenCalls) + Cardinality(holding) + Cardinality(recovered)
  /\ inDeployment = Cardinality(OpenCalls)
  /\ \A s \in Sessions : perSession[s] = Cardinality(Opened(s))
  /\ Cardinality(OpenCalls) + Cardinality(holding) <= MaxPending

\* A batch is posted once, its reservation is held while one of its jobs runs, and
\* a pending file has its job.
Batches ==
  /\ holding \subseteq {FilesOf[c] : c \in Calls}
  /\ \A b \in holding : \A f \in b : upload[f] # "none"
  /\ \A c \in Calls : call[c] = "asking" /\ c \notin stale => \A f \in FilesOf[c] : upload[f] = "none"
  /\ \A f \in Files : job[f] # NoJob /\ f \notin recovered =>
       \A c \in Calls : f \in FilesOf[c] => FilesOf[c] \in holding
  /\ \A f \in Files : Wanted(f) => job[f] # NoJob
  /\ \A f \in Files : upload[f] = "none" => job[f] = NoJob

\* What an invalidation shut, and the files it shut it for.
Shut(k) == IF k \in Files THEN upload[k] = "withdrawn" ELSE session[k].withdrawn \/ session[k].erased
Under(k) == IF k \in Files THEN {k} ELSE Of(k)

\* An invalidation waits for every job that still runs on what it shut.
Acks ==
  \A k \in Files \cup Sessions :
    /\ k \in Files /\ ack[k].state # "none" => Shut(k)
    /\ Shut(k) /\ ack[k].state # "none" => \A f \in Under(k) : job[f] # NoJob => f \in ack[k].awaits
    /\ ack[k].state = "given" => ack[k].awaits = {}

\* The types of UploadsTypeOK.  Of the queue no proof needs one: whom the slot is
\* handed, a job waits for it or nothing happens.
Typed ==
  /\ session \in [Sessions -> Revisions]
  /\ upload \in [Files -> {"none", "pending", "accepted", "unreadable", "withdrawn"}]
  /\ call \in [Calls -> {"new", "reading", "asking", "closed"}] /\ stale \subseteq Calls
  /\ pending \in Nat /\ perSession \in [Sessions -> Nat] /\ inDeployment \in Nat
  /\ holding \subseteq SUBSET Files /\ recovered \subseteq Files
  /\ job \in [Files -> Jobs]
  /\ extracting \in BOOLEAN /\ parsers \subseteq Files
  /\ ack \in [Files \cup Sessions -> Acknowledgements]
  /\ events \in Nat /\ restarts \in Nat

-----------------------------------------------------------------------------
(* The inputs *)

\* A file belongs to the conversation of the calls that bring it.
LEMMA OwnerIs ==
  ASSUME NEW c \in Calls, NEW f \in FilesOf[c]
  PROVE  f \in Files /\ Owner(f) = SessionOf[c]
<1>1. FilesOf[c] \in SUBSET Files
  BY UploadsAssumption
<1> DEFINE d == CHOOSE e \in Calls : f \in FilesOf[e]
<1>2. d \in Calls /\ f \in FilesOf[d]
  OBVIOUS
<1> HIDE DEF d
<1>3. FilesOf[c] = FilesOf[d]
  BY <1>2, UploadsAssumption
<1>4. SessionOf[d] = SessionOf[c]
  BY <1>2, <1>3, UploadsAssumption
<1> QED
  BY <1>1, <1>4 DEF Owner, d

\* Every file has a conversation.
LEMMA OwnerType == \A f \in Files : Owner(f) \in Sessions
<1> SUFFICES ASSUME NEW f \in Files PROVE Owner(f) \in Sessions
  OBVIOUS
<1>1. PICK c \in Calls : f \in FilesOf[c]
  BY UploadsAssumption
<1> QED
  BY <1>1, OwnerIs, UploadsAssumption

-----------------------------------------------------------------------------
(* What the helpers do to the jobs *)

\* No job is started by a step that only lets jobs go on or end.
JobsGoOn == \A g \in Files : job'[g] # NoJob => job[g] # NoJob

\* The job that passes the slot on is gone; at most the head of the queue is loaded
\* in its place.
LEMMA PassesOn ==
  ASSUME Typed, NEW f \in Files, Passes(f)
  PROVE  /\ job' \in [Files -> Jobs] /\ extracting' \in BOOLEAN
         /\ job'[f] = NoJob
         /\ \A g \in Files : /\ g # f => (job'[g] # NoJob <=> job[g] # NoJob)
                             /\ At(g, "parsing") /\ g # f => At(g, "parsing")'
                             /\ Loaded(g)' => g # f /\ (Loaded(g) \/ (waiters # <<>> /\ g = Head(waiters)))
                             /\ Loaded(g)' /\ ~Loaded(g) => extracting'
<1>0. job \in [Files -> Jobs] /\ NoJob \in Jobs /\ NoJob.stage = "none"
  BY DEF Typed, NoJob, Jobs, Stages
<1> DEFINE next == IF waiters = <<>> THEN {} ELSE {Head(waiters)}
           n(g) == [job[g] EXCEPT !.stage = "granted"]
<1>1. /\ extracting' = (waiters # <<>>)
      /\ job' = [g \in Files |-> IF g = f THEN NoJob ELSE IF g \in next /\ At(g, "waiting") THEN n(g) ELSE job[g]]
  BY DEF Passes
<1>2. \A g \in Files : n(g) \in Jobs /\ n(g).stage = "granted"
  BY <1>0 DEF Jobs, Stages
<1>3. \A g \in next : waiters # <<>> /\ g = Head(waiters)
  OBVIOUS
<1> HIDE DEF next, n
<1> QED
  BY <1>0, <1>1, <1>2, <1>3 DEF At, Loaded

\* Aborting ends no job and starts none; it only takes jobs out of the queue.
LEMMA AbortedOnly ==
  ASSUME Typed, NEW F, Aborted(F)
  PROVE  /\ job' \in [Files -> Jobs]
         /\ \A g \in Files : /\ job'[g] # NoJob <=> job[g] # NoJob
                             /\ At(g, "parsing") <=> At(g, "parsing")'
                             /\ Loaded(g)' <=> Loaded(g)
<1>0. job \in [Files -> Jobs]
  BY DEF Typed
<1> DEFINE n(f) == [job[f] EXCEPT !.aborted = TRUE, !.stage = IF @ = "waiting" THEN "left" ELSE @]
<1>1. \A f \in Files : job'[f] = job[f] \/ (job[f] # NoJob /\ job'[f] = n(f))
  BY DEF Aborted
<1>2. \A f \in Files : job[f] \in Jobs /\ n(f) \in Jobs
  BY <1>0 DEF Jobs, Stages
<1>3. \A f \in Files : n(f).aborted = TRUE /\ n(f).stage = IF job[f].stage = "waiting" THEN "left" ELSE job[f].stage
  BY <1>0 DEF Jobs
<1>5. NoJob.aborted = FALSE
  BY DEF NoJob
<1>4. job' = [f \in Files |-> job'[f]]
  BY DEF Aborted
<1> HIDE DEF n
<1>6. job' \in [Files -> Jobs]
  BY <1>0, <1>1, <1>2, <1>4
<1> QED
  BY <1>1, <1>2, <1>3, <1>5, <1>6 DEF At, Loaded

\* A result is recorded for a file that still wants one, and for that file only.
LEMMA RecordedOnly ==
  ASSUME Typed, NEW f \in Files, NEW result \in {"unreadable", "accepted"}, Recorded(f, result)
  PROVE  /\ session' = session
         /\ upload' \in [Files -> {"none", "pending", "accepted", "unreadable", "withdrawn"}]
         /\ stale' \subseteq Calls /\ \A c \in OpenCalls : c \in stale => c \in stale'
         /\ \A g \in Files : \/ upload'[g] = upload[g]
                             \/ upload[g] = "pending" /\ upload'[g] \in {"unreadable", "accepted"}
         /\ ~Wanted(f)'
<1>1. CASE Wanted(f)
  <2>1. upload' = [upload EXCEPT ![f] = result] /\ session' = session /\ Revises(Owner(f))
    BY <1>1 DEF Recorded
  <2>2. upload \in [Files -> {"none", "pending", "accepted", "unreadable", "withdrawn"}]
    BY DEF Typed
  <2> QED
    BY <1>1, <2>1, <2>2 DEF Wanted, Revises, OpenCalls
<1>2. CASE ~Wanted(f)
  BY <1>2 DEF Recorded, records, Wanted, Typed, Owner
<1> QED
  BY <1>1, <1>2

\* Passing the slot on loads one job at most.
LEMMA PassesOne ==
  ASSUME Typed, OneLoaded, NEW f \in Files, Loaded(f), Passes(f)
  PROVE  /\ \A g, h \in Files : Loaded(g)' /\ Loaded(h)' => g = h
         /\ \A g \in Files : Loaded(g)' => extracting'
<1>1. \A g \in Files : Loaded(g) => g = f
  BY DEF OneLoaded
<1>2. \A g \in Files : Loaded(g)' => ~Loaded(g) /\ g = Head(waiters) /\ extracting'
  BY <1>1, PassesOn
<1> QED
  BY <1>2

\* What a step of a job leaves, whatever it was at.
JobDoes ==
  /\ UNCHANGED <<session, requests, reserved, ack, events, restarts>>
  /\ upload' \in [Files -> {"none", "pending", "accepted", "unreadable", "withdrawn"}]
  /\ stale' \subseteq Calls /\ \A c \in OpenCalls : c \in stale => c \in stale'
  /\ \A g \in Files : \/ upload'[g] = upload[g]
                      \/ upload[g] = "pending" /\ upload'[g] \in {"unreadable", "accepted"}
  /\ job' \in [Files -> Jobs] /\ extracting' \in BOOLEAN /\ parsers' \subseteq Files
  /\ JobsGoOn
  /\ \A g \in Files : Wanted(g)' /\ job[g] # NoJob => job'[g] # NoJob

\* A job that ends without the slot.
LEMMA JobDropped ==
  ASSUME Typed, OneLoaded, NEW f \in Files, ~Loaded(f), Recorded(f, "unreadable"),
         job' = [job EXCEPT ![f] = NoJob],
         UNCHANGED <<requests, reserved, slot, parsers, ack, events, restarts>>
  PROVE  JobDoes /\ OneLoaded'
<1>0. job \in [Files -> Jobs] /\ NoJob \in Jobs /\ NoJob.stage = "none" /\ extracting \in BOOLEAN /\ parsers \subseteq Files
  BY DEF Typed, NoJob, Jobs, Stages
<1>1. /\ session' = session
      /\ upload' \in [Files -> {"none", "pending", "accepted", "unreadable", "withdrawn"}]
      /\ stale' \subseteq Calls /\ \A c \in OpenCalls : c \in stale => c \in stale'
      /\ \A g \in Files : \/ upload'[g] = upload[g]
                          \/ upload[g] = "pending" /\ upload'[g] \in {"unreadable", "accepted"}
      /\ ~Wanted(f)'
  BY RecordedOnly
<1>2. job' \in [Files -> Jobs] /\ job'[f] = NoJob /\ \A g \in Files : g # f => job'[g] = job[g]
  BY <1>0
<1>3. UNCHANGED <<requests, reserved, ack, events, restarts>> /\ extracting' = extracting /\ parsers' = parsers
  BY DEF slot
<1>4. JobDoes
  BY <1>0, <1>1, <1>2, <1>3 DEF JobDoes, JobsGoOn
<1>5. OneLoaded'
  BY <1>0, <1>2, <1>3 DEF OneLoaded, Loaded, At
<1> QED
  BY <1>4, <1>5

\* A job that ends and passes the slot on.
LEMMA JobPassed ==
  ASSUME Typed, OneLoaded, NEW f \in Files, Loaded(f),
         NEW result \in {"unreadable", "accepted"}, Recorded(f, result), Passes(f),
         UNCHANGED <<requests, reserved, ack, events, restarts>>, parsers' \subseteq parsers \ {f}
  PROVE  JobDoes /\ OneLoaded'
<1>0. parsers \subseteq Files
  BY DEF Typed
<1>1. /\ session' = session
      /\ upload' \in [Files -> {"none", "pending", "accepted", "unreadable", "withdrawn"}]
      /\ stale' \subseteq Calls /\ \A c \in OpenCalls : c \in stale => c \in stale'
      /\ \A g \in Files : \/ upload'[g] = upload[g]
                          \/ upload[g] = "pending" /\ upload'[g] \in {"unreadable", "accepted"}
      /\ ~Wanted(f)'
  BY RecordedOnly
<1>2. /\ job' \in [Files -> Jobs] /\ extracting' \in BOOLEAN
      /\ job'[f] = NoJob
      /\ \A g \in Files : /\ g # f => (job'[g] # NoJob <=> job[g] # NoJob)
                          /\ At(g, "parsing") /\ g # f => At(g, "parsing")'
  BY PassesOn
<1>3. job[f] # NoJob
  BY DEF Loaded, NoJob
<1>4. JobDoes
  BY <1>0, <1>1, <1>2, <1>3 DEF JobDoes, JobsGoOn
<1>5. OneLoaded'
  <2>1. \A g \in parsers' : At(g, "parsing")'
    BY <1>0, <1>2 DEF OneLoaded
  <2> QED
    BY <2>1, PassesOne DEF OneLoaded
<1> QED
  BY <1>4, <1>5

\* A job that goes on to another stage: it had the slot, or the slot was free when
\* it is loaded.
LEMMA JobMoved ==
  ASSUME Typed, OneLoaded, NEW f \in Files, job[f] # NoJob, NEW j \in Jobs, j.stage # "none",
         job' = [job EXCEPT ![f] = j],
         j.stage \in {"granted", "evaluating", "consuming", "parsing"} =>
           extracting' /\ (Loaded(f) \/ ~extracting),
         extracting => extracting', extracting' \in BOOLEAN,
         parsers' \subseteq Files, \A g \in parsers' : g \in parsers \ {f} \/ (g = f /\ j.stage = "parsing"),
         UNCHANGED <<records, requests, reserved, ack, events, restarts>>
  PROVE  JobDoes /\ OneLoaded'
<1>0. job \in [Files -> Jobs] /\ NoJob.stage = "none"
  BY DEF Typed, NoJob
<1>1. job' \in [Files -> Jobs] /\ job'[f] = j /\ \A g \in Files : g # f => job'[g] = job[g]
  BY <1>0
<1>2. JobDoes
  BY <1>0, <1>1 DEF JobDoes, JobsGoOn, records, Typed
<1>3. \A g \in Files : Loaded(g)' /\ g # f => Loaded(g)
  BY <1>1 DEF Loaded
<1>4. Loaded(f)' => extracting' /\ (Loaded(f) \/ ~extracting)
  BY <1>1 DEF Loaded
<1>5. OneLoaded'
  BY <1>1, <1>3, <1>4 DEF OneLoaded, At
<1> QED
  BY <1>2, <1>5

\* Every step of a job.
LEMMA JobStepDoes ==
  ASSUME Typed, OneLoaded, NEW f \in Files, JobStep(f)
  PROVE  JobDoes /\ OneLoaded'
<1>0. job \in [Files -> Jobs] /\ session \in [Sessions -> Revisions] /\ NoJob.stage = "none" /\ extracting \in BOOLEAN
      /\ parsers \subseteq Files /\ job[f] \in Jobs /\ session[Owner(f)] \in Revisions
  BY OwnerType DEF Typed, NoJob
<1>m. ASSUME NEW x \in {"waiting", "granted", "consuming", "parsing"}
      PROVE  LET j == [job[f] EXCEPT !.stage = x] IN
             /\ j \in Jobs /\ j.stage = x
             /\ To(f, x) => job' = [job EXCEPT ![f] = j]
  BY <1>0 DEF Jobs, Stages, To
<1>1. CASE Begin(f)
  <2>0. At(f, "new") /\ ~Loaded(f) /\ job[f] # NoJob
    BY <1>0, <1>1 DEF Begin, At, Loaded
  <2>1. CASE ~Wanted(f) \/ job[f].aborted
    BY <1>1, <2>0, <2>1, JobDropped DEF Begin, slot
  <2>2. CASE ~(~Wanted(f) \/ job[f].aborted) /\ extracting
    <3> DEFINE j == [job[f] EXCEPT !.stage = "waiting"]
    <3>1. /\ To(f, "waiting") /\ extracting' = extracting
          /\ UNCHANGED <<records, requests, reserved, parsers, ack, events, restarts>>
      BY <1>1, <2>2 DEF Begin
    <3>2. j \in Jobs /\ j.stage = "waiting" /\ job' = [job EXCEPT ![f] = j]
      BY <1>m, <3>1
    <3>3. \A g \in parsers : g # f
      BY <2>0 DEF OneLoaded, At
    <3> HIDE DEF j
    <3> QED
      BY <1>0, <2>0, <3>1, <3>2, <3>3, JobMoved
  <2>3. CASE ~(~Wanted(f) \/ job[f].aborted) /\ ~extracting
    <3> DEFINE j == [job[f] EXCEPT !.stage = "granted"]
    <3>1. /\ To(f, "granted") /\ extracting' = TRUE
          /\ UNCHANGED <<records, requests, reserved, parsers, ack, events, restarts>>
      BY <1>1, <2>3 DEF Begin
    <3>2. j \in Jobs /\ j.stage = "granted" /\ job' = [job EXCEPT ![f] = j]
      BY <1>m, <3>1
    <3>3. \A g \in parsers : g # f
      BY <2>0 DEF OneLoaded, At
    <3> HIDE DEF j
    <3> QED
      BY <1>0, <2>0, <2>3, <3>1, <3>2, <3>3, JobMoved
  <2> QED
    BY <2>1, <2>2, <2>3
<1>2. CASE LeaveQueue(f)
  <2>1. ~Loaded(f)
    BY <1>2 DEF LeaveQueue, At, Loaded
  <2> QED
    BY <1>2, <2>1, JobDropped DEF LeaveQueue
<1>3. CASE Load(f)
  <2>0. Loaded(f) /\ job[f] # NoJob /\ extracting /\ f \notin parsers
    BY <1>0, <1>3 DEF Load, At, Loaded, OneLoaded
  <2>1. CASE Unreadable(f)
    BY <1>3, <2>0, <2>1, JobPassed DEF Load, Unreadable
  <2>2. CASE ~Unreadable(f)
    <3> DEFINE j == [stage |-> "evaluating", aborted |-> FALSE,
                     consent |-> session[Owner(f)].consent, choice |-> session[Owner(f)].choice]
    <3>1. job' = [job EXCEPT ![f] = j] /\ UNCHANGED <<records, slot, requests, reserved, parsers, ack, events, restarts>>
      BY <1>3, <2>2 DEF Load
    <3>2. j \in Jobs /\ j.stage = "evaluating"
      BY <1>0 DEF Jobs, Revisions, Stages
    <3>3. extracting' = extracting
      BY <3>1 DEF slot
    <3> HIDE DEF j
    <3> QED
      BY ZenonT(60), <1>0, <2>0, <3>1, <3>2, <3>3, JobMoved
  <2> QED
    BY <2>1, <2>2
<1>4. CASE Evaluated(f)
  <2>0. Loaded(f) /\ job[f] # NoJob /\ extracting /\ f \notin parsers
    BY <1>0, <1>4 DEF Evaluated, At, Loaded, OneLoaded
  <2>1. CASE Unreadable(f)
    BY <1>4, <2>0, <2>1, JobPassed DEF Evaluated, Unreadable
  <2>2. CASE ~Unreadable(f)
    <3> DEFINE j == [job[f] EXCEPT !.stage = "consuming"]
    <3>1. /\ To(f, "consuming") /\ extracting' = extracting
          /\ UNCHANGED <<records, requests, reserved, parsers, ack, events, restarts>>
      BY <1>4, <2>2 DEF Evaluated, slot
    <3>2. j \in Jobs /\ j.stage = "consuming" /\ job' = [job EXCEPT ![f] = j]
      BY <1>m, <3>1
    <3> HIDE DEF j
    <3> QED
      BY ZenonT(60), <1>0, <2>0, <3>1, <3>2, JobMoved
  <2> QED
    BY <2>1, <2>2
<1>5. CASE Fork(f)
  <2>0. Loaded(f) /\ job[f] # NoJob /\ extracting /\ f \notin parsers
    BY <1>0, <1>5 DEF Fork, At, Loaded, OneLoaded
  <2>1. CASE Unreadable(f) /\ UNCHANGED parsers
    BY <1>5, <2>0, <2>1, JobPassed DEF Fork, Unreadable
  <2>2. CASE ~(Unreadable(f) /\ UNCHANGED parsers)
    <3> DEFINE j == [job[f] EXCEPT !.stage = "parsing"]
    <3>1. /\ To(f, "parsing") /\ extracting' = extracting /\ parsers' = {f}
          /\ UNCHANGED <<records, requests, reserved, ack, events, restarts>>
      BY <1>5, <2>2 DEF Fork, slot
    <3>2. j \in Jobs /\ j.stage = "parsing" /\ job' = [job EXCEPT ![f] = j]
      BY <1>m, <3>1
    <3> HIDE DEF j
    <3> QED
      BY <1>0, <2>0, <3>1, <3>2, JobMoved
  <2> QED
    BY <2>1, <2>2
<1>6. CASE Reap(f)
  <2>0. Loaded(f)
    BY <1>6 DEF Reap, At, Loaded
  <2>1. PICK result \in {"unreadable", "accepted"} : Recorded(f, result) /\ Passes(f)
    BY <1>6 DEF Reap, Unreadable
  <2> QED
    BY <1>6, <2>0, <2>1, JobPassed DEF Reap
<1> QED
  BY <1>1, <1>2, <1>3, <1>4, <1>5, <1>6 DEF JobStep

-----------------------------------------------------------------------------
(* Counting what is reserved *)

\* What is reserved is finite.
LEMMA Finite ==
  ASSUME Typed, Batches
  PROVE  /\ IsFiniteSet(OpenCalls) /\ IsFiniteSet(holding) /\ IsFiniteSet(recovered)
         /\ \A s : IsFiniteSet(Opened(s))
         /\ Cardinality(OpenCalls) \in Nat /\ Cardinality(holding) \in Nat /\ Cardinality(recovered) \in Nat
<1>1. IsFiniteSet(Calls) /\ IsFiniteSet(Files)
  BY UploadsAssumption
<1>2. OpenCalls \in SUBSET Calls /\ \A s : Opened(s) \in SUBSET Calls
  BY DEF OpenCalls, Opened
<1>3. IsFiniteSet(SUBSET Files) /\ holding \in SUBSET SUBSET Files
  BY <1>1, FS_SUBSET DEF Typed
<1>4. recovered \in SUBSET Files
  BY DEF Typed
<1>5. IsFiniteSet(OpenCalls) /\ IsFiniteSet(holding) /\ IsFiniteSet(recovered) /\ \A s : IsFiniteSet(Opened(s))
  BY <1>1, <1>2, <1>3, <1>4, FS_Subset DEF Batches
<1> QED
  BY <1>5, FS_CardinalityType

\* A request that is let in counts.
LEMMA OpenedMore ==
  ASSUME Typed, Counted, Batches, NEW c \in Calls, c \notin OpenCalls,
         call' = [call EXCEPT ![c] = "reading"],
         perSession' = [perSession EXCEPT ![SessionOf[c]] = @ + 1], inDeployment' = inDeployment + 1
  PROVE  /\ Cardinality(OpenCalls)' = Cardinality(OpenCalls) + 1
         /\ inDeployment' = Cardinality(OpenCalls)' /\ inDeployment' \in Nat
         /\ perSession' \in [Sessions -> Nat] /\ \A s \in Sessions : perSession'[s] = Cardinality(Opened(s))'
<1>0. SessionOf[c] \in Sessions /\ perSession \in [Sessions -> Nat] /\ inDeployment \in Nat
      /\ call \in [Calls -> {"new", "reading", "asking", "closed"}]
  BY UploadsAssumption DEF Typed
<1>1. OpenCalls' = OpenCalls \cup {c}
  BY <1>0 DEF OpenCalls
<1>2. Opened(SessionOf[c])' = Opened(SessionOf[c]) \cup {c} /\ c \notin Opened(SessionOf[c])
  BY <1>1 DEF Opened
<1>3. \A s \in Sessions : s # SessionOf[c] => Opened(s)' = Opened(s)
  BY <1>1 DEF Opened
<1>4. IsFiniteSet(OpenCalls) /\ IsFiniteSet(Opened(SessionOf[c]))
  BY Finite
<1>5. Cardinality(OpenCalls)' = Cardinality(OpenCalls) + 1
  BY <1>1, <1>4, FS_AddElement
<1>6. Cardinality(Opened(SessionOf[c]))' = Cardinality(Opened(SessionOf[c])) + 1
  BY <1>2, <1>4, FS_AddElement
<1>7. inDeployment = Cardinality(OpenCalls) /\ \A s \in Sessions : perSession[s] = Cardinality(Opened(s))
  BY DEF Counted
<1>8. ASSUME NEW s \in Sessions PROVE perSession'[s] = Cardinality(Opened(s))'
  <2>1. CASE s = SessionOf[c]
    BY <1>0, <1>6, <1>7, <2>1
  <2>2. CASE s # SessionOf[c]
    BY <1>0, <1>3, <1>7, <2>2
  <2> QED
    BY <2>1, <2>2
<1> QED
  BY <1>0, <1>5, <1>7, <1>8

\* A request that closes does no longer.
LEMMA OpenedLess ==
  ASSUME Typed, Counted, Batches, NEW c \in OpenCalls, Closes(c)
  PROVE  /\ OpenCalls' = OpenCalls \ {c}
         /\ Cardinality(OpenCalls) > 0 /\ Cardinality(OpenCalls)' = Cardinality(OpenCalls) - 1
         /\ inDeployment' = Cardinality(OpenCalls)' /\ inDeployment' \in Nat
         /\ call' \in [Calls -> {"new", "reading", "asking", "closed"}]
         /\ \A d \in Calls : call'[d] = "asking" => call[d] = "asking"
         /\ perSession' \in [Sessions -> Nat] /\ \A s \in Sessions : perSession'[s] = Cardinality(Opened(s))'
<1>0. /\ SessionOf[c] \in Sessions /\ perSession \in [Sessions -> Nat] /\ inDeployment \in Nat /\ c \in Calls
      /\ call \in [Calls -> {"new", "reading", "asking", "closed"}]
  BY UploadsAssumption DEF Typed, OpenCalls
<1>1. OpenCalls' = OpenCalls \ {c}
  BY <1>0 DEF OpenCalls, Closes
<1>2. Opened(SessionOf[c])' = Opened(SessionOf[c]) \ {c} /\ c \in Opened(SessionOf[c])
  BY <1>1 DEF Opened
<1>3. \A s \in Sessions : s # SessionOf[c] => Opened(s)' = Opened(s)
  BY <1>1 DEF Opened
<1>4. IsFiniteSet(OpenCalls) /\ IsFiniteSet(Opened(SessionOf[c]))
  BY Finite
<1>5. Cardinality(OpenCalls)' = Cardinality(OpenCalls) - 1 /\ Cardinality(OpenCalls) > 0 /\ Cardinality(OpenCalls) \in Nat
  BY <1>1, <1>4, FS_RemoveElement, FS_EmptySet, FS_CardinalityType
<1>6. /\ Cardinality(Opened(SessionOf[c]))' = Cardinality(Opened(SessionOf[c])) - 1
      /\ Cardinality(Opened(SessionOf[c])) > 0 /\ Cardinality(Opened(SessionOf[c])) \in Nat
  BY SMTT(30), <1>2, <1>4, FS_RemoveElement, FS_EmptySet, FS_CardinalityType
<1>7. inDeployment = Cardinality(OpenCalls) /\ \A s \in Sessions : perSession[s] = Cardinality(Opened(s))
  BY DEF Counted
<1>8. ASSUME NEW s \in Sessions PROVE perSession'[s] = Cardinality(Opened(s))' /\ perSession'[s] \in Nat
  <2>1. CASE s = SessionOf[c]
    BY <1>0, <1>6, <1>7, <2>1 DEF Closes
  <2>2. CASE s # SessionOf[c]
    BY <1>0, <1>3, <1>7, <2>2 DEF Closes
  <2> QED
    BY <2>1, <2>2
<1>9. perSession' \in [Sessions -> Nat]
  BY <1>0, <1>8 DEF Closes
<1> QED
  BY <1>0, <1>1, <1>5, <1>7, <1>8, <1>9 DEF Closes

-----------------------------------------------------------------------------
(* Every step keeps the invariant *)

IInv == Typed /\ OneLoaded /\ Counted /\ Batches /\ Acks

\* What is acknowledged depends on the jobs, the files and the conversations only.
LEMMA AcksKept ==
  ASSUME Acks, ack' = ack, JobsGoOn,
         \A g \in Files : upload'[g] = "withdrawn" => upload[g] = "withdrawn" \/ ack[g].state = "none",
         \A g \in Files : upload[g] = "withdrawn" => upload'[g] = "withdrawn",
         \A s \in Sessions : session'[s].withdrawn \/ session'[s].erased => session[s].withdrawn \/ session[s].erased
  PROVE  Acks'
<1> SUFFICES ASSUME NEW k \in Files \cup Sessions
             PROVE  /\ k \in Files /\ ack[k].state # "none" => Shut(k)'
                    /\ Shut(k)' /\ ack[k].state # "none" => \A f \in Under(k) : job'[f] # NoJob => f \in ack[k].awaits
                    /\ ack[k].state = "given" => ack[k].awaits = {}
  BY DEF Acks, Under, Of
<1>1. /\ k \in Files /\ ack[k].state # "none" => Shut(k)
      /\ Shut(k) /\ ack[k].state # "none" => \A f \in Under(k) : job[f] # NoJob => f \in ack[k].awaits
      /\ ack[k].state = "given" => ack[k].awaits = {}
  BY DEF Acks
<1>2. Shut(k)' /\ ack[k].state # "none" => Shut(k)
  BY DEF Shut
<1>3. \A f \in Under(k) : f \in Files
  BY DEF Under, Of
<1> QED
  BY <1>1, <1>2, <1>3 DEF Shut, JobsGoOn

\* A request that arrives reserves what the counters can still take.
LEMMA ArriveKeeps == ASSUME IInv, NEW c \in Calls, Arrive(c) PROVE IInv'
<1>0. /\ call \in [Calls -> {"new", "reading", "asking", "closed"}] /\ c \notin OpenCalls
      /\ UNCHANGED <<session, stale, upload, holding, recovered, job, extracting, waiters, parsers, ack, events, restarts>>
  BY DEF IInv, Typed, Arrive, OpenCalls, records, slot
<1>1. OneLoaded'
  BY <1>0 DEF IInv, OneLoaded, Loaded, At
<1>2. Acks'
  BY <1>0, AcksKept DEF IInv, JobsGoOn
<1>3. CASE call' = [call EXCEPT ![c] = "closed"] /\ UNCHANGED <<pending, perSession, inDeployment>>
  <2>1. OpenCalls' = OpenCalls
    BY <1>0, <1>3 DEF OpenCalls
  <2>2. Counted'
    BY <1>0, <1>3, <2>1 DEF IInv, Counted, Opened
  <2>3. Typed'
    BY <1>0, <1>3 DEF IInv, Typed
  <2>4. Batches'
    BY <1>0, <1>3 DEF IInv, Batches, Wanted, Owner
  <2> QED
    BY <1>1, <1>2, <2>2, <2>3, <2>4 DEF IInv
<1>4. CASE /\ call' = [call EXCEPT ![c] = "reading"]
           /\ pending' = pending + 1 /\ pending < MaxPending
           /\ perSession' = [perSession EXCEPT ![SessionOf[c]] = @ + 1] /\ inDeployment' = inDeployment + 1
  <2>1. /\ Cardinality(OpenCalls)' = Cardinality(OpenCalls) + 1
        /\ inDeployment' = Cardinality(OpenCalls)' /\ inDeployment' \in Nat
        /\ perSession' \in [Sessions -> Nat] /\ \A s \in Sessions : perSession'[s] = Cardinality(Opened(s))'
    BY <1>0, <1>4, OpenedMore DEF IInv
  <2>2. /\ Cardinality(OpenCalls) \in Nat /\ Cardinality(holding) \in Nat /\ Cardinality(recovered) \in Nat
        /\ MaxPending \in Nat
    BY Finite, UploadsAssumption DEF IInv
  <2>3. pending = Cardinality(OpenCalls) + Cardinality(holding) + Cardinality(recovered)
    BY DEF IInv, Counted
  <2>4. Counted'
    BY <1>0, <1>4, <2>1, <2>2, <2>3 DEF Counted
  <2>5. Typed'
    BY <1>0, <1>4, <2>1 DEF IInv, Typed
  <2>6. Batches'
    BY <1>0, <1>4 DEF IInv, Batches, Wanted, Owner
  <2> QED
    BY <1>1, <1>2, <2>4, <2>5, <2>6 DEF IInv
<1>5. pending \in Nat /\ MaxPending \in Nat
  BY UploadsAssumption DEF IInv, Typed
<1> QED
  BY <1>3, <1>4, <1>5 DEF Arrive

\* A request that closes and gives its reservation back.
LEMMA ClosesKeeps ==
  ASSUME IInv, NEW c \in OpenCalls, Closes(c), pending' = pending - 1,
         UNCHANGED <<records, holding, recovered, job, slot, parsers, ack, events, restarts>>
  PROVE  IInv'
<1>0. UNCHANGED <<session, stale, upload, holding, recovered, job, extracting, waiters, parsers, ack, events, restarts>>
  BY DEF records, slot
<1>1. /\ Cardinality(OpenCalls) > 0 /\ Cardinality(OpenCalls)' = Cardinality(OpenCalls) - 1
      /\ inDeployment' = Cardinality(OpenCalls)' /\ inDeployment' \in Nat
      /\ call' \in [Calls -> {"new", "reading", "asking", "closed"}]
      /\ \A d \in Calls : call'[d] = "asking" => call[d] = "asking"
      /\ perSession' \in [Sessions -> Nat] /\ \A s \in Sessions : perSession'[s] = Cardinality(Opened(s))'
  BY OpenedLess DEF IInv
<1>2. /\ Cardinality(OpenCalls) \in Nat /\ Cardinality(holding) \in Nat /\ Cardinality(recovered) \in Nat
      /\ MaxPending \in Nat
  BY Finite, UploadsAssumption DEF IInv
<1>3. /\ pending = Cardinality(OpenCalls) + Cardinality(holding) + Cardinality(recovered)
      /\ Cardinality(OpenCalls) + Cardinality(holding) <= MaxPending
  BY DEF IInv, Counted
<1>4. Counted' /\ pending' \in Nat
  BY <1>0, <1>1, <1>2, <1>3 DEF Counted
<1>5. Typed'
  BY <1>0, <1>1, <1>4 DEF IInv, Typed
<1>6. Batches'
  BY <1>0, <1>1 DEF IInv, Batches, Wanted, Owner
<1>7. OneLoaded'
  BY <1>0 DEF IInv, OneLoaded, Loaded, At
<1>8. Acks'
  BY <1>0, AcksKept DEF IInv, JobsGoOn
<1> QED
  BY <1>4, <1>5, <1>6, <1>7, <1>8 DEF IInv

\* A body that repeats a known file gives its reservation back; another goes on to ask.
LEMMA ReadKeeps == ASSUME IInv, NEW c \in Calls, Read(c) PROVE IInv'
<1>1. CASE \E f \in FilesOf[c] : upload[f] # "none"
  BY <1>1, ClosesKeeps DEF Read, OpenCalls
<1>2. CASE ~\E f \in FilesOf[c] : upload[f] # "none"
  <2>0. /\ call \in [Calls -> {"new", "reading", "asking", "closed"}]
        /\ call[c] = "reading" /\ call' = [call EXCEPT ![c] = "asking"]
        /\ UNCHANGED <<session, stale, upload, holding, recovered, job, extracting, waiters, parsers, ack, events, restarts>>
        /\ UNCHANGED <<perSession, inDeployment, pending>>
    BY <1>2 DEF IInv, Typed, Read, records, slot
  <2>1. OpenCalls' = OpenCalls
    BY <2>0 DEF OpenCalls
  <2>2. Counted'
    BY <2>0, <2>1 DEF IInv, Counted, Opened
  <2>3. Typed'
    BY <2>0 DEF IInv, Typed
  <2>4. Batches'
    BY <1>2, <2>0 DEF IInv, Batches, Wanted, Owner
  <2>5. OneLoaded'
    BY <2>0 DEF IInv, OneLoaded, Loaded, At
  <2>6. Acks'
    BY <2>0, AcksKept DEF IInv, JobsGoOn
  <2> QED
    BY <2>2, <2>3, <2>4, <2>5, <2>6 DEF IInv
<1> QED
  BY <1>1, <1>2

\* A post hands the reservation to the batch, which was not held before.
LEMMA PostKeeps == ASSUME IInv, NEW c \in Calls, Post(c) PROVE IInv'
<1> DEFINE s == SessionOf[c]
           B == FilesOf[c]
<1>0. /\ call[c] = "asking" /\ c \notin stale /\ c \in OpenCalls
      /\ ~session[s].erased /\ ~session[s].withdrawn
      /\ upload' = [f \in Files |-> IF f \in B THEN "pending" ELSE upload[f]]
      /\ stale' = {d \in OpenCalls : d \in stale \/ SessionOf[d] = s}
      /\ job' = [f \in Files |-> IF f \in B THEN NewJob ELSE job[f]]
      /\ holding' = holding \cup {B} /\ Closes(c)
      /\ UNCHANGED <<session, pending, recovered, extracting, waiters, parsers, ack, events, restarts>>
  BY DEF Post, Admissible, Revises, OpenCalls, slot
<1>1. /\ OpenCalls' = OpenCalls \ {c}
      /\ Cardinality(OpenCalls) > 0 /\ Cardinality(OpenCalls)' = Cardinality(OpenCalls) - 1
      /\ inDeployment' = Cardinality(OpenCalls)' /\ inDeployment' \in Nat
      /\ call' \in [Calls -> {"new", "reading", "asking", "closed"}]
      /\ \A d \in Calls : call'[d] = "asking" => call[d] = "asking"
      /\ perSession' \in [Sessions -> Nat] /\ \A r \in Sessions : perSession'[r] = Cardinality(Opened(r))'
  BY <1>0, OpenedLess DEF IInv
<1>2. /\ B \in SUBSET Files /\ B # {} /\ s \in Sessions
      /\ \A f \in B : Owner(f) = s
      /\ \A d \in Calls : B = FilesOf[d] \/ B \cap FilesOf[d] = {}
      /\ \A d \in Calls : B = FilesOf[d] => SessionOf[d] = s
  BY OwnerIs, UploadsAssumption
<1>3. \A f \in B : upload[f] = "none"
  BY <1>0 DEF IInv, Batches
<1>4. B \notin holding
  BY <1>2, <1>3 DEF IInv, Batches
<1>5. /\ NewJob \in Jobs /\ NewJob.stage = "new" /\ NewJob # NoJob /\ NoJob.stage = "none"
  BY DEF NewJob, NoJob, Jobs, Stages
<1>6. IsFiniteSet(holding) /\ Cardinality(OpenCalls) \in Nat /\ Cardinality(holding) \in Nat
      /\ Cardinality(recovered) \in Nat /\ MaxPending \in Nat
  BY Finite, UploadsAssumption DEF IInv
<1>7. /\ job \in [Files -> Jobs] /\ upload \in [Files -> {"none", "pending", "accepted", "unreadable", "withdrawn"}]
      /\ holding \subseteq SUBSET Files /\ parsers \subseteq Files /\ stale \subseteq Calls
  BY DEF IInv, Typed
<1> HIDE DEF B, s
<1>8. Cardinality(holding') = Cardinality(holding) + 1
  BY <1>0, <1>4, <1>6, FS_AddElement
<1>9. Counted'
  BY <1>0, <1>1, <1>6, <1>8 DEF IInv, Counted
<1>10. Typed'
  <2>1. stale' \subseteq Calls
    BY <1>0 DEF OpenCalls
  <2>2. holding' \subseteq SUBSET Files
    BY <1>0, <1>2, <1>7
  <2>3. job' \in [Files -> Jobs]
    BY <1>0, <1>5, <1>7
  <2>4. upload' \in [Files -> {"none", "pending", "accepted", "unreadable", "withdrawn"}]
    BY <1>0, <1>7
  <2> QED
    BY <1>0, <1>1, <2>1, <2>2, <2>3, <2>4 DEF IInv, Typed
<1>11. \A f \in Files : /\ f \in B => upload'[f] = "pending" /\ job'[f] = NewJob
                        /\ f \notin B => upload'[f] = upload[f] /\ job'[f] = job[f]
  BY <1>0
<1>12. Batches'
  <2>1. holding' \subseteq {FilesOf[d] : d \in Calls}
    BY <1>0 DEF IInv, Batches, B
  <2>2. \A b \in holding' : \A f \in b : upload'[f] # "none"
    BY <1>0, <1>2, <1>7, <1>11 DEF IInv, Batches
  <2>3. ASSUME NEW d \in Calls, call'[d] = "asking", d \notin stale', NEW f \in FilesOf[d]
        PROVE  upload'[f] = "none"
    <3>1. d \in OpenCalls /\ call[d] = "asking"
      BY <1>1, <2>3 DEF OpenCalls
    <3>2. d \notin stale /\ SessionOf[d] # s
      BY <1>0, <2>3, <3>1
    <3>3. f \in Files /\ f \notin B
      BY <1>2, <2>3, <3>2, OwnerIs
    <3>4. upload[f] = "none"
      BY <2>3, <3>1, <3>2 DEF IInv, Batches
    <3> QED
      BY <1>11, <3>3, <3>4
  <2>4. ASSUME NEW f \in Files, job'[f] # NoJob, f \notin recovered', NEW d \in Calls, f \in FilesOf[d]
        PROVE  FilesOf[d] \in holding'
    <3>1. CASE f \in B
      BY <1>0, <1>2, <2>4, <3>1
    <3>2. CASE f \notin B
      BY <1>0, <1>11, <2>4, <3>2 DEF IInv, Batches
    <3> QED
      BY <3>1, <3>2
  <2>5. ASSUME NEW f \in Files, Wanted(f)' PROVE job'[f] # NoJob
    BY <1>0, <1>5, <1>11, <2>5 DEF IInv, Batches, Wanted, Owner
  <2>6. ASSUME NEW f \in Files, upload'[f] = "none" PROVE job'[f] = NoJob
    BY <1>11, <2>6 DEF IInv, Batches
  <2> QED
    BY <2>1, <2>2, <2>3, <2>4, <2>5, <2>6 DEF Batches
<1>13. OneLoaded'
  <2>1. \A f \in Files : Loaded(f)' => Loaded(f)
    BY <1>5, <1>11 DEF Loaded
  <2>2. \A f \in parsers : f \notin B
    <3>1. \A f \in B : job[f] = NoJob
      BY <1>2, <1>3 DEF IInv, Batches
    <3>2. \A f \in parsers : job[f] # NoJob
      BY <1>5 DEF IInv, OneLoaded, At
    <3> QED
      BY <3>1, <3>2
  <2> QED
    BY <1>0, <1>7, <1>11, <2>1, <2>2 DEF IInv, OneLoaded, At
<1>14. Acks'
  <2> SUFFICES ASSUME NEW k \in Files \cup Sessions
               PROVE  /\ k \in Files /\ ack[k].state # "none" => Shut(k)'
                      /\ Shut(k)' /\ ack[k].state # "none" => \A f \in Under(k) : job'[f] # NoJob => f \in ack[k].awaits
                      /\ ack[k].state = "given" => ack[k].awaits = {}
    BY <1>0 DEF Acks, Under, Of
  <2>1. /\ k \in Files /\ ack[k].state # "none" => Shut(k)
        /\ Shut(k) /\ ack[k].state # "none" => \A f \in Under(k) : job[f] # NoJob => f \in ack[k].awaits
        /\ ack[k].state = "given" => ack[k].awaits = {}
    BY DEF IInv, Acks
  <2>2. CASE k \in Files
    <3>1. ack[k].state # "none" => k \notin B
      BY <1>3, <2>1, <2>2 DEF Shut
    <3>2. k \notin B => (Shut(k)' <=> Shut(k))
      BY <1>11, <2>2 DEF Shut
    <3>3. Under(k) = {k}
      BY <2>2 DEF Under
    <3> QED
      BY <1>11, <2>1, <2>2, <3>1, <3>2, <3>3
  <2>3. CASE k \notin Files
    <3>1. Shut(k)' <=> Shut(k)
      BY <1>0, <2>3 DEF Shut
    <3>2. Shut(k) => k # s
      BY <1>0, <2>3 DEF Shut
    <3>3. \A f \in Under(k) : f \in Files /\ Owner(f) = k
      BY <2>3 DEF Under, Of
    <3>4. Shut(k) => \A f \in Under(k) : job'[f] = job[f]
      BY <1>2, <1>11, <3>2, <3>3
    <3> QED
      BY <2>1, <2>3, <3>1, <3>4
  <2> QED
    BY <2>2, <2>3
<1> QED
  BY <1>9, <1>10, <1>12, <1>13, <1>14 DEF IInv

\* The reservation of a batch ends with its last job.
LEMMA ReleaseKeeps == ASSUME IInv, Release PROVE IInv'
<1>0. /\ UNCHANGED <<session, stale, upload, call, perSession, inDeployment, job, extracting, waiters, parsers, ack, events, restarts>>
      /\ pending' = pending - 1
  BY DEF Release, records, requests, slot
<1>1. /\ IsFiniteSet(holding) /\ IsFiniteSet(recovered)
      /\ Cardinality(OpenCalls) \in Nat /\ Cardinality(holding) \in Nat /\ Cardinality(recovered) \in Nat
      /\ MaxPending \in Nat
  BY Finite, UploadsAssumption DEF IInv
<1>2. OpenCalls' = OpenCalls /\ \A s \in Sessions : Opened(s)' = Opened(s)
  BY <1>0 DEF OpenCalls, Opened
<1>3. OneLoaded'
  BY <1>0 DEF IInv, OneLoaded, Loaded, At
<1>4. Acks'
  BY <1>0, AcksKept DEF IInv, JobsGoOn
<1>5. CASE \E b \in holding : (\A f \in b : job[f] = NoJob) /\ holding' = holding \ {b} /\ UNCHANGED recovered
  <2>1. PICK b \in holding : (\A f \in b : job[f] = NoJob) /\ holding' = holding \ {b} /\ UNCHANGED recovered
    BY <1>5
  <2>2. Cardinality(holding') = Cardinality(holding) - 1 /\ Cardinality(holding) # 0
    BY <1>1, <2>1, FS_RemoveElement, FS_EmptySet
  <2>3. Counted' /\ pending' \in Nat
    BY <1>0, <1>1, <1>2, <2>1, <2>2 DEF IInv, Counted
  <2>4. Typed'
    BY <1>0, <2>1, <2>3 DEF IInv, Typed
  <2>5. Batches'
    BY <1>0, <2>1 DEF IInv, Batches, Wanted, Owner
  <2> QED
    BY <1>3, <1>4, <2>3, <2>4, <2>5 DEF IInv
<1>6. CASE \E f \in recovered : job[f] = NoJob /\ recovered' = recovered \ {f} /\ UNCHANGED holding
  <2>1. PICK f \in recovered : job[f] = NoJob /\ recovered' = recovered \ {f} /\ UNCHANGED holding
    BY <1>6
  <2>2. Cardinality(recovered') = Cardinality(recovered) - 1 /\ Cardinality(recovered) # 0
    BY <1>1, <2>1, FS_RemoveElement, FS_EmptySet
  <2>3. Counted' /\ pending' \in Nat
    BY <1>0, <1>1, <1>2, <2>1, <2>2 DEF IInv, Counted
  <2>4. Typed'
    BY <1>0, <2>1, <2>3 DEF IInv, Typed
  <2>5. Batches'
    BY <1>0, <2>1 DEF IInv, Batches, Wanted, Owner
  <2> QED
    BY <1>3, <1>4, <2>3, <2>4, <2>5 DEF IInv
<1> QED
  BY <1>5, <1>6 DEF Release

\* A step of a job keeps the slot its own, until it passes it on.
LEMMA JobStepKeeps == ASSUME IInv, NEW f \in Files, JobStep(f) PROVE IInv'
<1>0. JobDoes /\ OneLoaded'
  BY JobStepDoes DEF IInv
<1>1. UNCHANGED <<session, call, perSession, inDeployment, pending, holding, recovered, ack, events, restarts>>
  BY <1>0 DEF JobDoes, requests, reserved
<1>2. Typed'
  BY <1>0, <1>1 DEF IInv, Typed, JobDoes
<1>3. Counted'
  BY <1>1 DEF IInv, Counted, OpenCalls, Opened
<1>4. Batches'
  <2>1. \A c \in Calls : call[c] = "asking" => c \in OpenCalls
    BY DEF OpenCalls
  <2>2. \A c \in Calls : \A g \in FilesOf[c] : g \in Files
    BY OwnerIs
  <2>3. \A g \in Files : upload'[g] = "none" <=> upload[g] = "none"
    BY <1>0 DEF JobDoes
  <2>4. \A b \in holding : \A g \in b : g \in Files
    BY DEF IInv, Typed
  <2>5. \A g \in Files : Wanted(g)' => Wanted(g)
    BY <1>0, <1>1 DEF JobDoes, Wanted, Owner
  <2> QED
    BY <1>0, <1>1, <2>1, <2>2, <2>3, <2>4, <2>5 DEF IInv, Batches, JobDoes, JobsGoOn
<1>5. Acks'
  BY <1>0, <1>1, AcksKept DEF IInv, JobDoes
<1> QED
  BY <1>0, <1>2, <1>3, <1>4, <1>5 DEF IInv

-----------------------------------------------------------------------------
(* What people do meanwhile *)

\* An intervention aborts jobs, withdraws files and revises conversations.
Intervenes(F) ==
  /\ Aborted(F)
  /\ UNCHANGED <<requests, reserved, extracting, parsers>>
  /\ session' \in [Sessions -> Revisions]
  /\ upload' \in [Files -> {"none", "pending", "accepted", "unreadable", "withdrawn"}]
  /\ stale' \subseteq Calls /\ \A c \in OpenCalls : c \in stale => c \in stale'
  /\ \A f \in Files : upload'[f] = upload[f] \/ (upload[f] # "none" /\ upload'[f] = "withdrawn")
  /\ \A s \in Sessions : session[s].erased => session'[s].erased
  /\ ack' \in [Files \cup Sessions -> Acknowledgements]
  /\ events' \in Nat /\ restarts' \in Nat

\* Aborting the jobs of some files disturbs neither the slot nor the counters.
LEMMA InterventionKeeps ==
  ASSUME IInv, NEW F, Intervenes(F)
  PROVE  Typed' /\ OneLoaded' /\ Counted' /\ Batches'
<1>1. /\ job' \in [Files -> Jobs]
      /\ \A g \in Files : /\ job'[g] # NoJob <=> job[g] # NoJob
                          /\ At(g, "parsing") <=> At(g, "parsing")'
                          /\ Loaded(g)' <=> Loaded(g)
  BY AbortedOnly DEF IInv, Intervenes
<1>2. UNCHANGED <<call, perSession, inDeployment, pending, holding, recovered, extracting, parsers>>
  BY DEF Intervenes, requests, reserved
<1>3. Typed'
  BY <1>1, <1>2 DEF IInv, Typed, Intervenes
<1>4. Counted'
  BY <1>2 DEF IInv, Counted, OpenCalls, Opened
<1>5. OneLoaded'
  BY <1>1, <1>2 DEF IInv, OneLoaded, Typed
<1>6. Batches'
  <2>1. \A c \in Calls : call[c] = "asking" => c \in OpenCalls
    BY DEF OpenCalls
  <2>2. \A c \in Calls : \A g \in FilesOf[c] : g \in Files
    BY OwnerIs
  <2>3. \A g \in Files : upload'[g] = "none" <=> upload[g] = "none"
    BY DEF Intervenes
  <2>4. \A b \in holding : \A g \in b : g \in Files
    BY DEF IInv, Typed
  <2>5. \A g \in Files : Wanted(g)' => Wanted(g)
    BY OwnerType DEF Intervenes, Wanted, Owner
  <2> QED
    BY <1>1, <1>2, <2>1, <2>2, <2>3, <2>4, <2>5 DEF IInv, Batches, Intervenes
<1> QED
  BY <1>3, <1>4, <1>5, <1>6

\* A withdrawal waits for the jobs on what it shuts; what others shut stays shut
\* for the same jobs.
LEMMA WaitsKeeps ==
  ASSUME IInv, NEW k \in Files \cup Sessions, NEW F, Waits(k, F), Intervenes(F),
         Under(k) \subseteq F, k \in Files => Shut(k)',
         \A j \in (Files \cup Sessions) \ {k} : Shut(j)' /\ ack[j].state # "none" => Shut(j)
  PROVE  IInv'
<1>1. Typed' /\ OneLoaded' /\ Counted' /\ Batches'
  BY InterventionKeeps
<1>2. \A g \in Files : job'[g] # NoJob <=> job[g] # NoJob
  BY AbortedOnly DEF IInv, Intervenes
<1>3. /\ ack \in [Files \cup Sessions -> Acknowledgements]
      /\ ack' = [ack EXCEPT ![k] = [awaits |-> {f \in F : job[f] # NoJob}, state |-> "waiting"]]
  BY DEF IInv, Typed, Waits
<1>4. \A j \in Files \cup Sessions : \A f \in Under(j) : f \in Files
  BY DEF Under, Of
<1> SUFFICES ASSUME NEW j \in Files \cup Sessions
             PROVE  /\ j \in Files /\ ack'[j].state # "none" => Shut(j)'
                    /\ Shut(j)' /\ ack'[j].state # "none" => \A f \in Under(j) : job'[f] # NoJob => f \in ack'[j].awaits
                    /\ ack'[j].state = "given" => ack'[j].awaits = {}
  BY <1>1 DEF IInv, Acks, Under, Of
<1>5. CASE j = k
  <2>1. ack'[j] = [awaits |-> {f \in F : job[f] # NoJob}, state |-> "waiting"]
    BY <1>3, <1>5
  <2>2. ack'[j].state = "waiting" /\ ack'[j].awaits = {f \in F : job[f] # NoJob}
    BY <2>1
  <2> QED
    BY <1>2, <1>4, <1>5, <2>2
<1>6. CASE j # k
  <2>1. ack'[j] = ack[j]
    BY <1>3, <1>6
  <2>2. /\ j \in Files /\ ack[j].state # "none" => Shut(j)
        /\ Shut(j) /\ ack[j].state # "none" => \A f \in Under(j) : job[f] # NoJob => f \in ack[j].awaits
        /\ ack[j].state = "given" => ack[j].awaits = {}
    BY DEF IInv, Acks
  <2>3. j \in Files /\ Shut(j) => Shut(j)'
    BY DEF Intervenes, Shut
  <2>4. Shut(j)' /\ ack[j].state # "none" => Shut(j)
    BY <1>6
  <2> QED
    BY <1>2, <1>4, <2>1, <2>2, <2>3, <2>4
<1> QED
  BY <1>5, <1>6

\* Sets of the revisions that an intervention makes.
LEMMA RevisesDoes ==
  ASSUME Typed, NEW s, Revises(s)
  PROVE  stale' \subseteq Calls /\ \A c \in OpenCalls : c \in stale => c \in stale'
BY DEF Revises, OpenCalls

\* The deadline of a batch aborts its job only.
LEMMA DeadlineKeeps == ASSUME IInv, NEW f \in Files, Deadline(f) PROVE IInv'
<1>1. Aborted({f}) /\ UNCHANGED <<session, stale, upload, requests, reserved, extracting, parsers, ack, events, restarts>>
  BY DEF Deadline, records
<1>2. Intervenes({f})
  BY <1>1 DEF IInv, Typed, Intervenes
<1>3. JobsGoOn
  BY <1>1, AbortedOnly DEF IInv, JobsGoOn
<1>4. Acks'
  BY <1>1, <1>3, AcksKept DEF IInv
<1> QED
  BY <1>2, <1>4, InterventionKeeps DEF IInv

\* A change of settings aborts jobs only.
LEMMA SettingsKeep == ASSUME IInv, NEW s \in Sessions, ChangeSettings(s) PROVE IInv'
<1>1. /\ Aborted(Of(s)) /\ session' = [session EXCEPT ![s].choice = 1 - @] /\ events' = events + 1
      /\ UNCHANGED <<stale, upload, requests, reserved, extracting, parsers, ack, restarts>>
  BY DEF ChangeSettings, Happens
<1>2. session \in [Sessions -> Revisions]
  BY DEF IInv, Typed
<1>3. session' \in [Sessions -> Revisions] /\ \A r \in Sessions : /\ session'[r].withdrawn = session[r].withdrawn
                                                                   /\ session'[r].erased = session[r].erased
  BY <1>1, <1>2 DEF Revisions
<1>4. Intervenes(Of(s))
  BY <1>1, <1>3 DEF IInv, Typed, Intervenes
<1>5. JobsGoOn
  BY <1>1, AbortedOnly DEF IInv, JobsGoOn
<1>6. Acks'
  BY <1>1, <1>3, <1>5, AcksKept DEF IInv
<1> QED
  BY <1>4, <1>6, InterventionKeeps DEF IInv

\* What a withdrawal records is well formed.
LEMMA WaitsType ==
  ASSUME Typed, NEW k \in Files \cup Sessions, NEW F \in SUBSET Files, Waits(k, F)
  PROVE  ack' \in [Files \cup Sessions -> Acknowledgements]
<1>1. {f \in F : job[f] # NoJob} \in SUBSET Files
  OBVIOUS
<1> QED
  BY <1>1 DEF Waits, Typed, Acknowledgements

\* A withdrawal aborts the file's job and awaits it.
LEMMA WithdrawKeeps == ASSUME IInv, NEW f \in Files, Withdraw(f) PROVE IInv'
<1>1. /\ events' = events + 1 /\ upload[f] # "none"
      /\ upload' = [upload EXCEPT ![f] = "withdrawn"] /\ Revises(Owner(f)) /\ Waits(f, {f})
      /\ UNCHANGED <<session, requests, reserved, extracting, parsers, restarts>>
  BY DEF Withdraw, Happens
<1>2. ack' \in [Files \cup Sessions -> Acknowledgements]
  BY <1>1, WaitsType DEF IInv
<1>3. stale' \subseteq Calls /\ \A c \in OpenCalls : c \in stale => c \in stale'
  BY <1>1, RevisesDoes DEF IInv
<1>4. upload \in [Files -> {"none", "pending", "accepted", "unreadable", "withdrawn"}]
  BY DEF IInv, Typed
<1>5. Intervenes({f})
  BY <1>1, <1>2, <1>3, <1>4 DEF IInv, Typed, Intervenes, Waits
<1>6. Under(f) = {f} /\ Shut(f)'
  BY <1>1, <1>4 DEF Under, Shut
<1>7. \A j \in (Files \cup Sessions) \ {f} : Shut(j)' => Shut(j)
  BY <1>1, <1>4 DEF Shut
<1> QED
  BY <1>1, <1>5, <1>6, <1>7, WaitsKeeps

\* A revision of consent leaves a well-formed conversation, erased or not as before.
LEMMA RevisedType ==
  ASSUME NEW r \in Revisions, NEW w \in BOOLEAN
  PROVE  LET v == [r EXCEPT !.consent = @ + 1, !.withdrawn = w] IN v \in Revisions /\ v.erased = r.erased
<1> DEFINE n == r.consent + 1
           v == [r EXCEPT !.consent = n, !.withdrawn = w]
<1>1. n \in Nat
  BY DEF Revisions
<1> HIDE DEF n
<1>2. v \in Revisions
  BY <1>1 DEF Revisions
<1>3. v.erased = r.erased
  BY DEF Revisions
<1> QED
  BY <1>2, <1>3 DEF n

\* A revision of consent aborts jobs, and a withdrawn consent awaits them.
LEMMA ReviseKeeps == ASSUME IInv, NEW s \in Sessions, NEW granted \in BOOLEAN, Revise(s, granted) PROVE IInv'
<1>1. /\ events' = events + 1
      /\ session' = [session EXCEPT ![s].consent = @ + 1, ![s].withdrawn = ~granted]
      /\ Revises(s) /\ Waits(s, Of(s))
      /\ UNCHANGED <<upload, requests, reserved, extracting, parsers, restarts>>
  BY DEF Revise, Happens
<1>2. ack' \in [Files \cup Sessions -> Acknowledgements]
  BY <1>1, WaitsType DEF IInv, Of
<1>3. stale' \subseteq Calls /\ \A c \in OpenCalls : c \in stale => c \in stale'
  BY <1>1, RevisesDoes DEF IInv
<1>4. session \in [Sessions -> Revisions]
  BY DEF IInv, Typed
<1>5. /\ session' \in [Sessions -> Revisions] /\ \A r \in Sessions : r # s => session'[r] = session[r]
      /\ session'[s].erased = session[s].erased
  <2> DEFINE w == ~granted
             v == [session[s] EXCEPT !.consent = @ + 1, !.withdrawn = w]
  <2>0. w \in BOOLEAN
    OBVIOUS
  <2>1. session[s] \in Revisions
    BY <1>4
  <2>2. v \in Revisions /\ v.erased = session[s].erased
    BY <2>0, <2>1, RevisedType
  <2>3. session' = [session EXCEPT ![s] = v]
    BY <1>1, <1>4
  <2> HIDE DEF v
  <2> QED
    BY <1>4, <2>2, <2>3
<1>6. Intervenes(Of(s))
  BY <1>1, <1>2, <1>3, <1>5 DEF IInv, Typed, Intervenes, Waits
<1>7. s \notin Files /\ Under(s) = Of(s)
  BY UploadsAssumption DEF Under
<1>8. \A j \in (Files \cup Sessions) \ {s} : Shut(j)' => Shut(j)
  BY <1>1, <1>5 DEF Shut
<1> QED
  BY <1>1, <1>6, <1>7, <1>8, WaitsKeeps

\* Erasure aborts the jobs of a conversation and awaits them.
LEMMA EraseKeeps == ASSUME IInv, NEW s \in Sessions, Erase(s) PROVE IInv'
<1>1. /\ events' = events + 1
      /\ session' = [session EXCEPT ![s].erased = TRUE]
      /\ upload' = [f \in Files |-> IF f \in Of(s) /\ upload[f] # "none" THEN "withdrawn" ELSE upload[f]]
      /\ Revises(s) /\ Waits(s, Of(s))
      /\ UNCHANGED <<requests, reserved, extracting, parsers, restarts>>
  BY DEF Erase, Happens
<1>2. ack' \in [Files \cup Sessions -> Acknowledgements]
  BY <1>1, WaitsType DEF IInv, Of
<1>3. stale' \subseteq Calls /\ \A c \in OpenCalls : c \in stale => c \in stale'
  BY <1>1, RevisesDoes DEF IInv
<1>4. /\ session \in [Sessions -> Revisions]
      /\ upload \in [Files -> {"none", "pending", "accepted", "unreadable", "withdrawn"}]
  BY DEF IInv, Typed
<1>5. /\ session' \in [Sessions -> Revisions] /\ \A r \in Sessions : r # s => session'[r] = session[r]
      /\ session'[s].erased
  <2>1. session[s] \in Revisions
    BY <1>4
  <2>2. [session[s] EXCEPT !.erased = TRUE] \in Revisions /\ session' = [session EXCEPT ![s] = [session[s] EXCEPT !.erased = TRUE]]
    BY <1>1, <1>4, <2>1 DEF Revisions
  <2>3. session' \in [Sessions -> Revisions] /\ \A r \in Sessions : r # s => session'[r] = session[r]
    BY <1>4, <2>2
  <2>4. session'[s].erased = TRUE
    BY <1>1, <1>4
  <2> QED
    BY <2>3, <2>4
<1>6. /\ upload' \in [Files -> {"none", "pending", "accepted", "unreadable", "withdrawn"}]
      /\ \A f \in Files : upload'[f] = upload[f] \/ (upload[f] # "none" /\ upload'[f] = "withdrawn")
  BY <1>1, <1>4
<1>7. Intervenes(Of(s))
  BY <1>1, <1>2, <1>3, <1>5, <1>6 DEF IInv, Typed, Intervenes, Waits
<1>8. s \notin Files /\ Under(s) = Of(s)
  BY UploadsAssumption DEF Under
<1>9. \A j \in (Files \cup Sessions) \ {s} : Shut(j)' /\ ack[j].state # "none" => Shut(j)
  BY <1>5 DEF Shut, IInv, Acks
<1> QED
  BY <1>1, <1>7, <1>8, <1>9, WaitsKeeps

\* The answer is given when what it waits for is over.
LEMMA AcknowledgeKeeps == ASSUME IInv, NEW k \in Files \cup Sessions, Acknowledge(k) PROVE IInv'
<1>0. /\ UNCHANGED <<session, stale, upload, call, perSession, inDeployment, pending, holding, recovered, job, extracting, parsers, events, restarts>>
      /\ ack[k].state = "waiting" /\ \A f \in ack[k].awaits : job[f] = NoJob
      /\ ack' = [ack EXCEPT ![k] = [awaits |-> {}, state |-> "given"]]
  BY DEF Acknowledge, records, requests, reserved, slot
<1>1. ack \in [Files \cup Sessions -> Acknowledgements]
  BY DEF IInv, Typed
<1>2. /\ ack' \in [Files \cup Sessions -> Acknowledgements]
      /\ ack'[k].state = "given" /\ ack'[k].awaits = {}
      /\ \A j \in Files \cup Sessions : j # k => ack'[j] = ack[j]
  BY <1>0, <1>1 DEF Acknowledgements
<1>3. Typed'
  BY <1>0, <1>2 DEF IInv, Typed
<1>4. Counted'
  BY <1>0 DEF IInv, Counted, OpenCalls, Opened
<1>5. Batches'
  BY <1>0 DEF IInv, Batches, Wanted, Owner
<1>6. OneLoaded'
  BY <1>0 DEF IInv, OneLoaded, Loaded, At
<1>7. Acks'
  <2> SUFFICES ASSUME NEW j \in Files \cup Sessions
               PROVE  /\ j \in Files /\ ack'[j].state # "none" => Shut(j)'
                      /\ Shut(j)' /\ ack'[j].state # "none" => \A f \in Under(j) : job'[f] # NoJob => f \in ack'[j].awaits
                      /\ ack'[j].state = "given" => ack'[j].awaits = {}
    BY DEF Acks, Under, Of
  <2>1. Shut(j)' <=> Shut(j)
    BY <1>0 DEF Shut
  <2> QED
    BY <1>0, <1>2, <2>1 DEF IInv, Acks
<1> QED
  BY <1>3, <1>4, <1>5, <1>6, <1>7 DEF IInv

\* After a restart the pending files have new jobs, and nothing else is left.
LEMMA RestartKeeps == ASSUME IInv, Restart PROVE IInv'
<1> DEFINE left == {f \in Files : Wanted(f)}
<1>0. /\ restarts' = restarts + 1
      /\ job' = [f \in Files |-> IF f \in left THEN NewJob ELSE NoJob]
      /\ recovered' = left /\ holding' = {} /\ pending' = Cardinality(left)
      /\ call' = [c \in Calls |-> IF c \in OpenCalls THEN "closed" ELSE call[c]] /\ stale' = {}
      /\ perSession' = [s \in Sessions |-> 0] /\ inDeployment' = 0
      /\ extracting' = FALSE /\ parsers' = {}
      /\ ack' = [k \in DOMAIN ack |-> IF ack[k].state = "waiting" THEN NoAck ELSE ack[k]]
      /\ UNCHANGED <<session, upload, events>>
  BY DEF Restart
<1>1. /\ NewJob \in Jobs /\ NewJob.stage = "new" /\ NoJob \in Jobs /\ NoJob.stage = "none" /\ NewJob # NoJob
      /\ NoAck \in Acknowledgements /\ NoAck.state = "none"
  BY DEF NewJob, NoJob, NoAck, Jobs, Stages, Acknowledgements
<1>2. IsFiniteSet(left) /\ Cardinality(left) \in Nat
  BY UploadsAssumption, FS_Subset, FS_CardinalityType
<1>3. left \in SUBSET Files /\ \A f \in left : Wanted(f)' /\ job'[f] = NewJob
  BY <1>0, <1>1 DEF Wanted, Owner
<1>4. \A f \in Files : /\ Wanted(f)' <=> f \in left
                       /\ f \notin left => job'[f] = NoJob
                       /\ job'[f] # NoJob => job'[f].stage = "new" /\ f \in left /\ Wanted(f)
  BY <1>0, <1>1 DEF Wanted, Owner
<1> HIDE DEF left
<1>5. call \in [Calls -> {"new", "reading", "asking", "closed"}] /\ ack \in [Files \cup Sessions -> Acknowledgements]
  BY DEF IInv, Typed
<1>6. OpenCalls' = {} /\ call' \in [Calls -> {"new", "reading", "asking", "closed"}]
  BY <1>0, <1>5 DEF OpenCalls
<1>7. Typed'
  <2>1. job' \in [Files -> Jobs]
    BY <1>0, <1>1
  <2>2. ack' \in [Files \cup Sessions -> Acknowledgements]
    BY <1>0, <1>1, <1>5
  <2>3. /\ pending' \in Nat /\ perSession' \in [Sessions -> Nat] /\ inDeployment' \in Nat
        /\ holding' \subseteq SUBSET Files /\ recovered' \subseteq Files
        /\ extracting' \in BOOLEAN /\ parsers' \subseteq Files
    BY <1>0, <1>2, <1>3
  <2>4. events' \in Nat /\ restarts' \in Nat
    BY <1>0 DEF IInv, Typed
  <2> QED
    BY <1>0, <1>6, <2>1, <2>2, <2>3, <2>4 DEF IInv, Typed
<1>8. OneLoaded'
  BY <1>0, <1>1, <1>4 DEF OneLoaded, Loaded
<1>9. Counted'
  <2>1. Cardinality({}) = 0
    BY FS_EmptySet
  <2>2. \A s \in Sessions : Opened(s)' = {}
    BY <1>6 DEF Opened
  <2>3. MaxPending \in Nat
    BY UploadsAssumption
  <2>4. /\ Cardinality(OpenCalls)' = 0 /\ Cardinality(holding)' = 0 /\ recovered' = left
        /\ \A s \in Sessions : perSession'[s] = 0 /\ Cardinality(Opened(s))' = 0
    BY <1>0, <1>6, <2>1, <2>2
  <2> QED
    BY <1>0, <1>2, <2>3, <2>4 DEF Counted
<1>10. Batches'
  <2>1. \A c \in Calls : call'[c] # "asking"
    BY <1>0, <1>5 DEF OpenCalls
  <2>2. \A f \in Files : upload'[f] = "none" => job'[f] = NoJob
    BY <1>0, <1>4 DEF Wanted
  <2> QED
    BY <1>0, <1>1, <1>3, <1>4, <2>1, <2>2 DEF Batches
<1>11. Acks'
  <2> SUFFICES ASSUME NEW j \in Files \cup Sessions
               PROVE  /\ j \in Files /\ ack'[j].state # "none" => Shut(j)'
                      /\ Shut(j)' /\ ack'[j].state # "none" => \A f \in Under(j) : job'[f] # NoJob => f \in ack'[j].awaits
                      /\ ack'[j].state = "given" => ack'[j].awaits = {}
    BY DEF Acks, Under, Of
  <2>1. Shut(j)' <=> Shut(j)
    BY <1>0 DEF Shut
  <2>2. ack'[j] = IF ack[j].state = "waiting" THEN NoAck ELSE ack[j]
    BY <1>0, <1>5
  <2>3. ack'[j].state # "none" => ack'[j] = ack[j] /\ ack[j].state = "given"
    BY <1>1, <1>5, <2>2 DEF Acknowledgements
  <2>4. \A f \in Under(j) : f \in Files
    BY DEF Under, Of
  <2>5. Shut(j) /\ ack[j].state = "given" => \A f \in Under(j) : job[f] = NoJob
    BY <2>4 DEF IInv, Acks
  <2>6. \A f \in Under(j) : job'[f] # NoJob => job[f] # NoJob
    BY <1>4, <2>4 DEF IInv, Batches
  <2> QED
    BY <2>1, <2>3, <2>4, <2>5, <2>6 DEF IInv, Acks
<1> QED
  BY <1>7, <1>8, <1>9, <1>10, <1>11 DEF IInv

\* At the start there are no jobs and nothing is reserved.
LEMMA InitIInv == Init => IInv
<1> SUFFICES ASSUME Init PROVE IInv
  OBVIOUS
<1>0. /\ NoJob \in Jobs /\ NoJob.stage = "none" /\ NoAck \in Acknowledgements /\ NoAck.state = "none"
      /\ [consent |-> 0, choice |-> 0, withdrawn |-> FALSE, erased |-> FALSE] \in Revisions
  BY DEF NoJob, NoAck, Jobs, Stages, Acknowledgements, Revisions
<1>1. Typed
  BY <1>0 DEF Init, Typed
<1>2. OneLoaded
  BY <1>0 DEF Init, OneLoaded, Loaded
<1>3. OpenCalls = {} /\ \A s \in Sessions : Opened(s) = {}
  BY DEF Init, OpenCalls, Opened
<1>4. Counted
  <2>1. /\ Cardinality({}) = 0 /\ MaxPending \in Nat
        /\ pending = 0 /\ inDeployment = 0 /\ holding = {} /\ recovered = {} /\ \A s \in Sessions : perSession[s] = 0
    BY FS_EmptySet, UploadsAssumption DEF Init
  <2> QED
    BY <1>3, <2>1 DEF Counted
<1>5. Batches
  BY DEF Init, Batches, Wanted
<1>6. Acks
  BY <1>0 DEF Init, Acks
<1> QED
  BY <1>1, <1>2, <1>4, <1>5, <1>6 DEF IInv

\* Every step keeps the invariant.
LEMMA StepIInv == IInv /\ [Next]_vars => IInv'
<1> SUFFICES ASSUME IInv, [Next]_vars PROVE IInv'
  OBVIOUS
<1>1. ASSUME NEW c \in Calls, Refuse(c) PROVE IInv'
  BY <1>1, ClosesKeeps DEF Refuse
<1>2. ASSUME NEW c \in Calls, Arrive(c) \/ Read(c) \/ Refuse(c) \/ Post(c) PROVE IInv'
  BY <1>1, <1>2, ArriveKeeps, ReadKeeps, PostKeeps
<1>3. ASSUME NEW f \in Files, JobStep(f) \/ Deadline(f) \/ Withdraw(f) PROVE IInv'
  BY <1>3, JobStepKeeps, DeadlineKeeps, WithdrawKeeps
<1>4. ASSUME NEW s \in Sessions, Erase(s) \/ ChangeSettings(s) \/ \E granted \in BOOLEAN : Revise(s, granted) PROVE IInv'
  BY <1>4, EraseKeeps, SettingsKeep, ReviseKeeps
<1>5. CASE UNCHANGED vars
  <2>0. UNCHANGED <<session, stale, upload, call, perSession, inDeployment, pending, holding, recovered, job, extracting,
                    parsers, ack, events, restarts>>
    BY <1>5 DEF vars, records, requests, reserved, slot
  <2>1. Typed'
    BY <2>0 DEF IInv, Typed
  <2>2. Counted'
    BY <2>0 DEF IInv, Counted, OpenCalls, Opened
  <2>3. Batches'
    BY <2>0 DEF IInv, Batches, Wanted, Owner
  <2>4. OneLoaded'
    BY <2>0 DEF IInv, OneLoaded, Loaded, At
  <2>5. Acks'
    BY <2>0, AcksKept DEF IInv, JobsGoOn
  <2> QED
    BY <2>1, <2>2, <2>3, <2>4, <2>5 DEF IInv
<1> QED
  BY <1>2, <1>3, <1>4, <1>5, ReleaseKeeps, AcknowledgeKeeps, RestartKeeps DEF Next

\* The invariant holds in every reachable state.
LEMMA IInvAlways == Spec => []IInv
<1> QED
  BY InitIInv, StepIInv, PTL DEF Spec

-----------------------------------------------------------------------------
(* The theorems *)

\* When a withdrawal of a file or of consent, or an erasure, has been acknowledged,
\* no job works on what it withdrew and no child process has its bytes (waitForJobs
\* in upload-handlers.js, before the answer).
THEOREM QuietAcknowledged == Spec => []QuietAfterAcknowledgement
<1>1. IInv => QuietAfterAcknowledgement
  <2> SUFFICES ASSUME IInv, NEW k \in DOMAIN ack, ack[k].state = "given",
                      NEW f \in IF k \in Files THEN {k} ELSE IF session[k].withdrawn \/ session[k].erased THEN Of(k) ELSE {}
               PROVE  job[f] = NoJob /\ f \notin parsers
    BY DEF QuietAfterAcknowledgement
  <2>1. k \in Files \cup Sessions
    BY DEF IInv, Typed
  <2>2. Shut(k) /\ f \in Under(k)
    BY <2>1 DEF IInv, Acks, Shut, Under
  <2>3. job[f] = NoJob
    BY <2>1, <2>2 DEF IInv, Acks
  <2>4. NoJob.stage = "none"
    BY DEF NoJob
  <2> QED
    BY <2>3, <2>4 DEF IInv, OneLoaded, At
<1> QED
  BY <1>1, IInvAlways, PTL

\* One job has its bytes loaded at a time, and the requests being read with the
\* batches still worked on are never more than MAX_PENDING_UPLOAD_REQUESTS, apart
\* from the files a restart found.
THEOREM MemoryIsBounded == Spec => []MemoryBounded
<1>1. IInv => MemoryBounded
  <2> SUFFICES ASSUME IInv PROVE MemoryBounded
    OBVIOUS
  <2> DEFINE loaded == {f \in Files : job[f].stage \in {"granted", "evaluating", "consuming", "parsing"}}
             busy == {FilesOf[c] : c \in {c \in Calls : \E f \in FilesOf[c] : job[f] # NoJob /\ f \notin recovered}}
  <2>1. Cardinality(loaded) <= 1
    <3>1. CASE loaded = {}
      BY <3>1, FS_EmptySet
    <3>2. CASE loaded # {}
      <4>1. PICK f : f \in loaded
        BY <3>2
      <4>2. loaded = {f}
        BY <4>1 DEF IInv, OneLoaded, Loaded
      <4> QED
        BY <4>2, FS_Singleton
    <3> QED
      BY <3>1, <3>2
  <2>2. busy \in SUBSET holding
    <3> SUFFICES ASSUME NEW c \in Calls, NEW f \in FilesOf[c], job[f] # NoJob, f \notin recovered
                 PROVE  FilesOf[c] \in holding
      OBVIOUS
    <3> QED
      BY OwnerIs DEF IInv, Batches
  <2>3. /\ IsFiniteSet(holding) /\ Cardinality(OpenCalls) \in Nat /\ Cardinality(holding) \in Nat /\ MaxPending \in Nat
        /\ Cardinality(OpenCalls) + Cardinality(holding) <= MaxPending
    BY Finite, UploadsAssumption DEF IInv, Counted
  <2> HIDE DEF busy
  <2>4. Cardinality(busy) <= Cardinality(holding) /\ Cardinality(busy) \in Nat
    BY <2>2, <2>3, FS_Subset, FS_CardinalityType
  <2>5. Cardinality(OpenCalls) + Cardinality(busy) <= MaxPending
    BY <2>3, <2>4
  <2> QED
    BY <2>1, <2>5 DEF MemoryBounded, busy
<1> QED
  BY <1>1, IInvAlways, PTL
=============================================================================
