------------------------------ MODULE Uploads ------------------------------
(***************************************************************************)
(* Document uploads (packages/server/src/upload-handlers.js) over the      *)
(* upload states of storage.js, the admission of an extraction             *)
(* (plugin-runtime.js extractUpload) and the parser process                *)
(* (packages/core/src/extractor-process.js).                               *)
(*                                                                         *)
(* A request reserves before its body is read and keeps the reservation    *)
(* until its last file is extracted.  Extractions pass one at a time, first *)
(* come first served; each awaits the host's availability twice and then a *)
(* child process.  Meanwhile files are withdrawn, consent and settings     *)
(* change, conversations are erased, deadlines pass, clients retry, and    *)
(* the server restarts with files still pending.                           *)
(*                                                                         *)
(* A request is refused for any reason at any time; bytes and texts are    *)
(* not told apart.  The runtime's answers are arbitrary except that        *)
(* withdrawn consent is always refused (evaluateUploads).                  *)
(***************************************************************************)
EXTENDS Naturals, FiniteSets, Sequences

CONSTANTS Sessions, Files,
          Calls,            \* upload requests; a retry is a call of its own
          SessionOf,        \* the conversation of a call
          FilesOf,          \* the files a call brings, under one client event id
          MaxPending,       \* MAX_PENDING_UPLOAD_REQUESTS
          MaxPerSession, MaxPerDeployment, MaxDocuments,
          MaxEvents,        \* bound on what people do meanwhile
          MaxRestarts       \* bound on restarts of the host

ASSUME UploadsAssumption ==
  /\ IsFiniteSet(Calls) /\ IsFiniteSet(Files)
  /\ SessionOf \in [Calls -> Sessions]
  /\ FilesOf \in [Calls -> (SUBSET Files) \ {{}}]
  /\ \A c, d \in Calls : FilesOf[c] = FilesOf[d] \/ FilesOf[c] \cap FilesOf[d] = {}
  /\ \A c, d \in Calls : FilesOf[c] = FilesOf[d] => SessionOf[c] = SessionOf[d]
  /\ UNION {FilesOf[c] : c \in Calls} = Files
  /\ Sessions \cap Files = {}
  /\ {MaxPending, MaxPerSession, MaxPerDeployment, MaxDocuments, MaxEvents, MaxRestarts} \subseteq Nat \ {0}

VARIABLES
  session,       \* consent and settings of a conversation, whether it is erased
  stale,         \* requests whose conversation was revised since they arrived
  upload,        \* the state of each file's record
  call,          \* the requests in progress
  pending,       \* pendingUploadRequests
  perSession, inDeployment,
  holding,       \* posted batches whose reservation waits for their jobs
  recovered,     \* files whose reservation was made by resume
  job,           \* the extraction job of a file
  extracting, waiters,   \* the extraction slot and its queue
  parsers,       \* child processes alive
  ack,           \* withdrawals and revocations: the jobs they wait for, and whether they were answered
  events, restarts       \* counted for the bounds

records == <<session, stale, upload>>
requests == <<call, perSession, inDeployment>>
reserved == <<pending, holding, recovered>>
slot == <<extracting, waiters>>
vars == <<records, requests, reserved, job, slot, parsers, ack, events, restarts>>

Owner(f) == SessionOf[CHOOSE c \in Calls : f \in FilesOf[c]]
Of(s) == {f \in Files : Owner(f) = s}

NoJob == [stage |-> "none", aborted |-> FALSE, consent |-> 0, choice |-> 0]
NewJob == [NoJob EXCEPT !.stage = "new"]
NoAck == [awaits |-> {}, state |-> "none"]

Happens == events < MaxEvents /\ events' = events + 1 /\ UNCHANGED restarts


-----------------------------------------------------------------------------
(* A request *)

OpenCalls == {c \in Calls : call[c] \in {"reading", "asking"}}

\* A revision of conversation s: a request that began before it is refused.
Revises(s) == stale' = {c \in OpenCalls : c \in stale \/ SessionOf[c] = s}

\* Reserved before the body is read.
Arrive(c) ==
  LET s == SessionOf[c]
  IN /\ call[c] = "new" /\ ~session[s].erased
     /\ IF perSession[s] >= MaxPerSession \/ inDeployment >= MaxPerDeployment \/ pending >= MaxPending
        THEN /\ call' = [call EXCEPT ![c] = "closed"]
             /\ UNCHANGED <<pending, perSession, inDeployment>>
        ELSE /\ call' = [call EXCEPT ![c] = "reading"]
             /\ pending' = pending + 1
             /\ perSession' = [perSession EXCEPT ![s] = @ + 1] /\ inDeployment' = inDeployment + 1
     /\ UNCHANGED <<records, holding, recovered, job, slot, parsers, ack, events, restarts>>

\* The finally of handle, without the reservation.
Closes(c) ==
  /\ call' = [call EXCEPT ![c] = "closed"]
  /\ perSession' = [perSession EXCEPT ![SessionOf[c]] = @ - 1]
  /\ inDeployment' = inDeployment - 1

\* A body that was read names a batch that is already recorded, or one to ask about.
Read(c) ==
  /\ call[c] = "reading"
  /\ IF \E f \in FilesOf[c] : upload[f] # "none"
     THEN Closes(c) /\ pending' = pending - 1
     ELSE /\ call' = [call EXCEPT ![c] = "asking"]
          /\ UNCHANGED <<perSession, inDeployment, pending>>
  /\ UNCHANGED <<records, holding, recovered, job, slot, parsers, ack, events, restarts>>

Refuse(c) ==
  /\ c \in OpenCalls
  /\ Closes(c) /\ pending' = pending - 1
  /\ UNCHANGED <<records, holding, recovered, job, slot, parsers, ack, events, restarts>>

Admissible(c) ==
  LET s == SessionOf[c]
  IN /\ ~session[s].erased /\ ~session[s].withdrawn /\ c \notin stale
     /\ Cardinality({f \in Of(s) : upload[f] \notin {"none", "withdrawn"}}) + Cardinality(FilesOf[c])
          <= MaxDocuments

\* Seeded fault: the reservation ends with the answer to the request.
PostAndRelease(c) ==
  /\ call[c] = "asking" /\ Admissible(c)
  /\ upload' = [f \in Files |-> IF f \in FilesOf[c] THEN "pending" ELSE upload[f]]
  /\ Revises(SessionOf[c])
  /\ job' = [f \in Files |-> IF f \in FilesOf[c] THEN NewJob ELSE job[f]]
  /\ Closes(c) /\ pending' = pending - 1
  /\ UNCHANGED <<session, holding, recovered, slot, parsers, ack, events, restarts>>

\* storage.postUploads; the reservation passes to the jobs.
Post(c) ==
  /\ call[c] = "asking" /\ Admissible(c)
  /\ upload' = [f \in Files |-> IF f \in FilesOf[c] THEN "pending" ELSE upload[f]]
  /\ Revises(SessionOf[c])
  /\ job' = [f \in Files |-> IF f \in FilesOf[c] THEN NewJob ELSE job[f]]
  /\ holding' = holding \cup {FilesOf[c]}
  /\ Closes(c)
  /\ UNCHANGED <<session, pending, recovered, slot, parsers, ack, events, restarts>>

\* The last job of a posted batch, or the job of a recovered file, is over.
Release ==
  /\ \/ \E b \in holding :
          /\ \A f \in b : job[f] = NoJob
          /\ holding' = holding \ {b} /\ UNCHANGED recovered
     \/ \E f \in recovered :
          /\ job[f] = NoJob
          /\ recovered' = recovered \ {f} /\ UNCHANGED holding
  /\ pending' = pending - 1
  /\ UNCHANGED <<records, requests, job, slot, parsers, ack, events, restarts>>

-----------------------------------------------------------------------------
(* A job *)

At(f, stage) == job[f].stage = stage
To(f, stage) == job' = [job EXCEPT ![f].stage = stage]

Wanted(f) == upload[f] = "pending" /\ ~session[Owner(f)].erased

\* current() of extractUpload, against the session its run began with.
Current(f) ==
  LET s == session[Owner(f)]
  IN Wanted(f) /\ ~s.withdrawn /\ s.consent = job[f].consent /\ s.choice = job[f].choice

\* The job is over and goes by what the record says now.
Recorded(f, result) ==
  IF Wanted(f) THEN /\ upload' = [upload EXCEPT ![f] = result]
                    /\ Revises(Owner(f)) /\ UNCHANGED session
               ELSE UNCHANGED records

\* releaseExtraction, and job f leaves the map: the first in the queue has the
\* slot, unless it was rejected already.
Passes(f) ==
  LET next == IF waiters = <<>> THEN {} ELSE {Head(waiters)} IN
  /\ extracting' = (waiters # <<>>)
  /\ waiters' = IF waiters = <<>> THEN <<>> ELSE Tail(waiters)
  /\ job' = [g \in Files |-> IF g = f THEN NoJob
                             ELSE IF g \in next /\ At(g, "waiting") THEN [job[g] EXCEPT !.stage = "granted"]
                             ELSE job[g]]

Unreadable(f) == Recorded(f, "unreadable") /\ Passes(f)

\* The first step of a job: it asks for the slot.
Begin(f) ==
  /\ At(f, "new")
  /\ IF ~Wanted(f) \/ job[f].aborted
     THEN Recorded(f, "unreadable") /\ job' = [job EXCEPT ![f] = NoJob] /\ UNCHANGED slot
     ELSE /\ IF extracting THEN To(f, "waiting") /\ waiters' = Append(waiters, f) /\ UNCHANGED extracting
                           ELSE To(f, "granted") /\ extracting' = TRUE /\ UNCHANGED waiters
          /\ UNCHANGED records
  /\ UNCHANGED <<requests, reserved, parsers, ack, events, restarts>>

\* A waiter whose signal was aborted has left the queue already.
LeaveQueue(f) ==
  /\ At(f, "left")
  /\ Recorded(f, "unreadable") /\ job' = [job EXCEPT ![f] = NoJob]
  /\ UNCHANGED <<requests, reserved, slot, parsers, ack, events, restarts>>

\* The bytes are loaded and sniffed; the host is asked for the first time.
Load(f) ==
  /\ At(f, "granted")
  /\ \/ Unreadable(f)
     \/ /\ ~job[f].aborted /\ Wanted(f) /\ ~session[Owner(f)].withdrawn
        /\ job' = [job EXCEPT ![f] = [stage |-> "evaluating", aborted |-> FALSE,
                                      consent |-> session[Owner(f)].consent,
                                      choice |-> session[Owner(f)].choice]]
        /\ UNCHANGED <<records, slot>>
  /\ UNCHANGED <<requests, reserved, parsers, ack, events, restarts>>

\* The host answered for the first time: the attempt is admitted.
Evaluated(f) ==
  /\ At(f, "evaluating")
  /\ \/ Unreadable(f)
     \/ ~job[f].aborted /\ Current(f) /\ To(f, "consuming") /\ UNCHANGED <<records, slot>>
  /\ UNCHANGED <<requests, reserved, parsers, ack, events, restarts>>

\* It answered again: the attempt is consumed, and the extractor starts a child
\* when no other is alive (acquire).
Fork(f) ==
  /\ At(f, "consuming")
  /\ \/ Unreadable(f) /\ UNCHANGED parsers
     \/ /\ ~job[f].aborted /\ Current(f) /\ parsers = {}
        /\ parsers' = {f} /\ To(f, "parsing") /\ UNCHANGED <<records, slot>>
  /\ UNCHANGED <<requests, reserved, ack, events, restarts>>

\* The child is reaped, of its own or because it was killed, and the run looks
\* once more at the signal and the session.
Reap(f) ==
  /\ At(f, "parsing")
  /\ parsers' = parsers \ {f}
  /\ \/ Unreadable(f)
     \/ ~job[f].aborted /\ Current(f) /\ Recorded(f, "accepted") /\ Passes(f)
  /\ UNCHANGED <<requests, reserved, ack, events, restarts>>

\* Seeded fault: an aborted waiter keeps its place in the queue.
AbortedInPlace(F) ==
  /\ job' = [f \in Files |->
               IF f \in F /\ job[f] # NoJob
               THEN [job[f] EXCEPT !.aborted = TRUE, !.stage = IF @ = "waiting" THEN "left" ELSE @] ELSE job[f]]
  /\ UNCHANGED waiters

\* The signal of each job in F is aborted: those in the queue leave it.
Aborted(F) ==
  LET aborts(f) == f \in F /\ job[f] # NoJob
      stays(f) == f \notin F
  IN /\ job' = [f \in Files |->
                  IF ~aborts(f) THEN job[f]
                  ELSE [job[f] EXCEPT !.aborted = TRUE, !.stage = IF @ = "waiting" THEN "left" ELSE @]]
     /\ waiters' = SelectSeq(waiters, stays)

\* The batch's deadline.
Deadline(f) ==
  /\ job[f] # NoJob /\ ~job[f].aborted
  /\ Aborted({f})
  /\ UNCHANGED <<records, requests, reserved, extracting, parsers, ack, events, restarts>>

-----------------------------------------------------------------------------
(* What people do meanwhile *)

\* Seeded fault: the withdrawal is acknowledged at once.
WaitsNot(k, F) ==
  /\ Aborted(F)
  /\ ack' = [ack EXCEPT ![k] = [awaits |-> {}, state |-> "waiting"]]

\* An invalidation waits for the jobs it aborted before it is acknowledged.
Waits(k, F) ==
  /\ Aborted(F)
  /\ ack' = [ack EXCEPT ![k] = [awaits |-> {f \in F : job[f] # NoJob}, state |-> "waiting"]]

\* DELETE of an upload, or its expiry.
Withdraw(f) ==
  /\ Happens /\ ~session[Owner(f)].erased /\ upload[f] \notin {"none", "withdrawn"}
  /\ upload' = [upload EXCEPT ![f] = "withdrawn"]
  /\ Revises(Owner(f))
  /\ Waits(f, {f})
  /\ UNCHANGED <<session, requests, reserved, extracting, parsers>>

\* A revision of consent that ends the conversation's earlier one, or its withdrawal.
Revise(s, granted) ==
  /\ Happens /\ ~session[s].erased
  /\ session' = [session EXCEPT ![s].consent = @ + 1, ![s].withdrawn = ~granted]
  /\ Revises(s)
  /\ Waits(s, Of(s))
  /\ UNCHANGED <<upload, requests, reserved, extracting, parsers>>

Erase(s) ==
  /\ Happens /\ ~session[s].erased
  /\ session' = [session EXCEPT ![s].erased = TRUE]
  /\ Revises(s)
  /\ upload' = [f \in Files |-> IF f \in Of(s) /\ upload[f] # "none" THEN "withdrawn" ELSE upload[f]]
  /\ Waits(s, Of(s))
  /\ UNCHANGED <<requests, reserved, extracting, parsers>>

\* Settings do not change the revision of the input, and withdraw nothing.
ChangeSettings(s) ==
  /\ Happens /\ ~session[s].erased
  /\ session' = [session EXCEPT ![s].choice = 1 - @]
  /\ Aborted(Of(s))
  /\ UNCHANGED <<stale, upload, requests, reserved, extracting, parsers, ack>>

Acknowledge(k) ==
  /\ ack[k].state = "waiting" /\ \A f \in ack[k].awaits : job[f] = NoJob
  /\ ack' = [ack EXCEPT ![k] = [awaits |-> {}, state |-> "given"]]
  /\ UNCHANGED <<records, requests, reserved, job, slot, parsers, events, restarts>>

\* The host dies and starts again: the children go with it, requests and queue
\* are forgotten, and resume starts a job for each pending file.
Restart ==
  LET left == {f \in Files : Wanted(f)}
  IN /\ restarts < MaxRestarts /\ restarts' = restarts + 1
     /\ job' = [f \in Files |-> IF f \in left THEN NewJob ELSE NoJob]
     /\ recovered' = left /\ holding' = {} /\ pending' = Cardinality(left)
     /\ call' = [c \in Calls |-> IF c \in OpenCalls THEN "closed" ELSE call[c]] /\ stale' = {}
     /\ perSession' = [s \in Sessions |-> 0] /\ inDeployment' = 0
     /\ extracting' = FALSE /\ waiters' = <<>> /\ parsers' = {}
     /\ ack' = [k \in DOMAIN ack |-> IF ack[k].state = "waiting" THEN NoAck ELSE ack[k]]
     /\ UNCHANGED <<session, upload, events>>

-----------------------------------------------------------------------------
Init ==
  /\ session = [s \in Sessions |-> [consent |-> 0, choice |-> 0, withdrawn |-> FALSE, erased |-> FALSE]]
  /\ upload = [f \in Files |-> "none"]
  /\ call = [c \in Calls |-> "new"] /\ stale = {}
  /\ pending = 0 /\ perSession = [s \in Sessions |-> 0] /\ inDeployment = 0
  /\ holding = {} /\ recovered = {}
  /\ job = [f \in Files |-> NoJob]
  /\ extracting = FALSE /\ waiters = <<>> /\ parsers = {}
  /\ ack = [k \in Files \cup Sessions |-> NoAck]
  /\ events = 0 /\ restarts = 0

JobStep(f) == Begin(f) \/ LeaveQueue(f) \/ Load(f) \/ Evaluated(f) \/ Fork(f) \/ Reap(f)

Next ==
  \/ \E c \in Calls : Arrive(c) \/ Read(c) \/ Refuse(c) \/ Post(c)
  \/ Release
  \/ \E f \in Files : JobStep(f) \/ Deadline(f) \/ Withdraw(f)
  \/ \E s \in Sessions : Erase(s) \/ ChangeSettings(s)
  \/ \E s \in Sessions, granted \in BOOLEAN : Revise(s, granted)
  \/ \E k \in Files \cup Sessions : Acknowledge(k)
  \/ Restart

\* Microtasks run; the host's answer has a deadline and a child is killed at its
\* own; a body that does not come ends its request.
Fairness ==
  /\ WF_vars(\E f \in Files : JobStep(f))
  /\ WF_vars(Release)
  /\ WF_vars(\E c \in Calls : Refuse(c) \/ Read(c) \/ Post(c))

Spec == Init /\ [][Next]_vars /\ Fairness

-----------------------------------------------------------------------------
(* Properties *)

UploadsTypeOK ==
  /\ session \in [Sessions -> [consent : Nat, choice : {0, 1}, withdrawn : BOOLEAN, erased : BOOLEAN]]
  /\ upload \in [Files -> {"none", "pending", "accepted", "unreadable", "withdrawn"}]
  /\ call \in [Calls -> {"new", "reading", "asking", "closed"}] /\ stale \subseteq Calls
  /\ pending \in Nat /\ perSession \in [Sessions -> Nat] /\ inDeployment \in Nat
  /\ holding \subseteq SUBSET Files /\ recovered \subseteq Files
  /\ job \in [Files -> [stage : {"none", "new", "waiting", "left", "granted", "evaluating", "consuming", "parsing"},
                        aborted : BOOLEAN, consent : Nat, choice : {0, 1}]]
  /\ extracting \in BOOLEAN /\ waiters \in Seq(Files) /\ parsers \subseteq Files
  /\ ack \in [Files \cup Sessions -> [awaits : SUBSET Files, state : {"none", "waiting", "given"}]]
  /\ events \in Nat /\ restarts \in Nat

\* The memory of uploads is bounded as docs/extractor-limits.md counts it: one
\* job has its bytes loaded, however many wait, are aborted or are handed the
\* slot; and the requests being read, with those whose files are not all
\* extracted, are never more than the reservation, apart from files a restart found.
MemoryBounded ==
  LET loaded == {f \in Files : job[f].stage \in {"granted", "evaluating", "consuming", "parsing"}}
      busy == {FilesOf[c] : c \in {c \in Calls : \E f \in FilesOf[c] : job[f] # NoJob /\ f \notin recovered}}
  IN /\ Cardinality(loaded) <= 1
     /\ Cardinality(OpenCalls) + Cardinality(busy) <= MaxPending

\* When the withdrawal of a file, the withdrawal of consent or the erasure of a
\* conversation has been acknowledged, no job works on what was withdrawn and no
\* child process still has its bytes.
QuietAfterAcknowledgement ==
  \A k \in DOMAIN ack : ack[k].state = "given" =>
    \A f \in IF k \in Files THEN {k} ELSE IF session[k].withdrawn \/ session[k].erased THEN Of(k) ELSE {} :
      job[f] = NoJob /\ f \notin parsers

\* Once people stop, every recorded file is extracted, refused or withdrawn and
\* all that requests reserved is given back: whatever the deadlines, restarts
\* and withdrawals before, the slot is never lost to a job that is gone.
UploadsEnd == []<>(pending = 0 /\ \A f \in Files : upload[f] # "pending")
=============================================================================
