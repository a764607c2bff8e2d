----------------------------- MODULE VoiceTurns -----------------------------
(***************************************************************************)
(* Spoken turns and the paid operations behind them                        *)
(* (packages/server/src/voice-turns.js, voice-operation-storage.js,        *)
(* composed/authority.js, voice-handlers.js admitReasoning).               *)
(*                                                                         *)
(* A turn of the person becomes one durable operation.  One worker at a    *)
(* time answers it, attempt after attempt, each replacement authorised;    *)
(* any number of HTTP readers follow the worker's text or its saved reply. *)
(* A tab that takes over the call retires the epoch of the operations      *)
(* before it; consent, withdrawal and pause revoke them; a crash forgets   *)
(* workers and readers and keeps operations.                               *)
(*                                                                         *)
(* A provider session lives in one epoch, so a turn (whose key contains    *)
(* its provider session) has its epoch once for all.                       *)
(***************************************************************************)
EXTENDS Naturals, FiniteSets

CONSTANTS
  Turns,        \* keys: one per provider session, ordinal and history
  OrdinalOf,    \* the turn's place in the history; 0 when it is unknown
  EpochOf,      \* the epoch of the provider session the turn came through
  Readers,      \* HTTP requests that follow a reply
  Streaming,    \* those that ask for the text as it comes
  Retried,      \* turns for which the host authorises a replacement
  MaxAttempts,  \* attempts per operation (8 in the code)
  MaxText,      \* bound on the pieces of a reply
  MaxUpsets,    \* bound on takeovers, changes of consent or input, pauses and restarts
  NoTurn        \* the turn of a reader that follows none

ASSUME TurnAssumption ==
  /\ OrdinalOf \in [Turns -> Nat] /\ EpochOf \in [Turns -> Nat]
  /\ {MaxText, MaxUpsets} \subseteq Nat
  /\ MaxAttempts \in Nat \ {0} 
  /\ Streaming \subseteq Readers /\ Retried \subseteq Turns /\ NoTurn \notin Turns

VARIABLES
  epoch,     \* the epoch of the controlling tab (voice lifecycle)
  revision,  \* consent and withdrawal revisions of the session
  paused,    \* the session is paused
  op,        \* voice_turn_operations, one record per turn
  flight,    \* flights: the worker of each attempt
  text,      \* flight.content of each attempt
  hold,      \* the budget reservation of each attempt
  reader,    \* the readers
  upsets     \* takeovers, changes, pauses and restarts so far

sessionVars == <<epoch, revision, paused, upsets>>
vars == <<sessionVars, op, flight, text, hold, reader>>

Attempts == 1..MaxAttempts

Operation == [state : {"none", "pending", "completed", "failed"}, fence : 0..MaxAttempts,
              rev : Nat, ordered : BOOLEAN, paid : SUBSET Attempts, saved : Nat, fresh : BOOLEAN]

NoOperation == [state |-> "none", fence |-> 0, rev |-> 0, ordered |-> FALSE,
                paid |-> {}, saved |-> 0, fresh |-> FALSE]

\* "none" is also a worker that ended or died with its process
Stages == {"none", "checking", "reserving", "reserved", "admitted", "streaming", "replying"}

\* "none" is also a reservation that was returned; "late": the owner's wallet
\* still answers an admission whose worker met its deadline, and an "orphan" is
\* what it then reserves
Holds == {"none", "late", "orphan", "held", "spent"}

Reader == [stage : {"idle", "authorizing", "ready", "pull", "waiting", "completed"},
           turn : Turns \cup {NoTurn}, fence : 0..MaxAttempts, got : Nat]

NoReader == [stage |-> "idle", turn |-> NoTurn, fence |-> 0, got |-> 0]

TurnsTypeOK ==
  /\ paused \in BOOLEAN /\ epoch \in Nat /\ revision \in Nat /\ upsets \in Nat
  /\ op \in [Turns -> Operation]
  /\ flight \in [Turns -> [Attempts -> Stages]]
  /\ text \in [Turns -> [Attempts -> Nat]]
  /\ hold \in [Turns -> [Attempts -> Holds]]
  /\ reader \in [Readers -> Reader]

Init ==
  /\ epoch = 0 /\ revision = 0 /\ paused = FALSE /\ upsets = 0
  /\ op = [t \in Turns |-> NoOperation]
  /\ flight = [t \in Turns |-> [n \in Attempts |-> "none"]]
  /\ text = [t \in Turns |-> [n \in Attempts |-> 0]]
  /\ hold = [t \in Turns |-> [n \in Attempts |-> "none"]]
  /\ reader = [r \in Readers |-> NoReader]

-----------------------------------------------------------------------------
(* The durable store *)

OwnsEpoch(t) == EpochOf[t] = epoch

\* The session still stands behind the operation.
Current(t) == ~paused /\ op[t].rev = revision

\* A later turn of the same provider session was admitted to a paid call.
Overtaken(t) == \E u \in Turns : /\ EpochOf[u] = EpochOf[t]
                                 /\ op[u].paid # {} /\ OrdinalOf[u] > OrdinalOf[t]

Pending(t, n) == op[t].state = "pending" /\ op[t].fence = n /\ Current(t)

Obsolete(t, n) == n \notin op[t].paid /\ op[t].ordered /\ Overtaken(t)

BeforeAdmission(t, n) == Pending(t, n) /\ OwnsEpoch(t) /\ ~Obsolete(t, n)

Readable(t) == OwnsEpoch(t) /\ Current(t) /\ op[t].fresh

\* The call that started the worker still controls the session.
Authorized(t) == OwnsEpoch(t) /\ Current(t)

Running(t, n) == flight[t][n] # "none"

-----------------------------------------------------------------------------
(* Requests *)

Free(r) == reader[r].stage \in {"idle", "completed"}

Follow(r, t, n, stage) ==
  reader' = [reader EXCEPT ![r] = [stage |-> stage, turn |-> t, fence |-> n, got |-> 0]]

Wake(t) == [r \in Readers |-> IF reader[r].stage = "waiting" /\ reader[r].turn = t
                              THEN [reader[r] EXCEPT !.stage = "pull"] ELSE reader[r]]

StartWorker(t, n) == flight' = [flight EXCEPT ![t][n] = "checking"]

\* A turn nobody has seen: a durable claim and its worker.
Claim(r, t) ==
  /\ Free(r) /\ op[t].state = "none" /\ OwnsEpoch(t) /\ ~paused
  /\ op' = [op EXCEPT ![t] = [NoOperation EXCEPT !.state = "pending", !.fence = 1, !.rev = revision,
                                                 !.ordered = OrdinalOf[t] # 0 /\ ~Overtaken(t)]]
  /\ StartWorker(t, 1)
  /\ Follow(r, t, 1, "ready")
  /\ UNCHANGED <<sessionVars, text, hold>>

\* A duplicate follows the worker there is.
Join(r, t) ==
  /\ Free(r) /\ BeforeAdmission(t, op[t].fence) /\ Running(t, op[t].fence)
  /\ Follow(r, t, op[t].fence, "ready")
  /\ UNCHANGED <<sessionVars, op, flight, text, hold>>

\* A completed turn is answered from the saved reply.
Replay(r, t) ==
  /\ Free(r) /\ op[t].state = "completed" /\ Readable(t)
  /\ Follow(r, t, op[t].fence, "pull")
  /\ UNCHANGED <<sessionVars, op, flight, text, hold>>

\* Seeded fault: whether a worker runs is not asked.
AbandonedIfPending(t) == op[t].state = "pending"

Abandoned(t) == op[t].state = "pending" /\ ~Running(t, op[t].fence)

Failed(t) == [op EXCEPT ![t].state = "failed"]

\* A failed turn, or one whose worker died with the process, asks for a
\* replacement to be authorised.
AskReplacement(r, t) ==
  /\ Free(r) /\ OwnsEpoch(t) /\ Current(t)
  /\ \/ op[t].state = "failed" /\ UNCHANGED op
     \/ Abandoned(t) /\ BeforeAdmission(t, op[t].fence) /\ op' = Failed(t)
  /\ Follow(r, t, op[t].fence, "authorizing")
  /\ UNCHANGED <<sessionVars, flight, text, hold>>

Replaceable(r) ==
  LET t == reader[r].turn IN op[t].fence = reader[r].fence /\ op[t].state = "failed"

\* The authorisation arrives: the first replaces the attempt it was asked for.
Replace(r) ==
  LET t == reader[r].turn
      n == op[t].fence + 1
  IN /\ reader[r].stage = "authorizing" /\ t \in Retried
     /\ OwnsEpoch(t) /\ Current(t) /\ Replaceable(r) /\ n \in Attempts
     /\ op' = [op EXCEPT ![t].state = "pending", ![t].fence = n]
     /\ StartWorker(t, n)
     /\ Follow(r, t, n, "ready")
     /\ UNCHANGED <<sessionVars, text, hold>>

\* Another reader replaced it meanwhile: join its worker or read its reply.
ReplacedMeanwhile(r) ==
  LET t == reader[r].turn
      n == op[t].fence
  IN /\ reader[r].stage = "authorizing" /\ t \in Retried
     /\ OwnsEpoch(t) /\ Current(t) /\ ~Replaceable(r)
     /\ \/ Running(t, n) /\ Follow(r, t, n, "ready")
        \/ op[t].state = "completed" /\ Readable(t) /\ Follow(r, t, n, "pull")
     /\ UNCHANGED <<sessionVars, op, flight, text, hold>>

\* What a reader was told when its stream closed or failed is not kept.
Drop(r) == reader' = [reader EXCEPT ![r] = NoReader]

\* The reader disconnects, meets its deadline or is refused a replacement.
Leave(r) ==
  /\ ~Free(r)
  /\ Drop(r)
  /\ UNCHANGED <<sessionVars, op, flight, text, hold>>

-----------------------------------------------------------------------------
(* The worker of attempt n of turn t *)

Stage(t, n, from, to) == flight[t][n] = from /\ flight' = [flight EXCEPT ![t][n] = to]

SetHold(t, n, h) == hold' = [hold EXCEPT ![t][n] = h]

\* checkVoice was awaited; ownership and order are read again.
CheckVoice(t, n) ==
  /\ Stage(t, n, "checking", "reserving")
  /\ Authorized(t) /\ BeforeAdmission(t, n)
  /\ UNCHANGED <<sessionVars, op, text, hold, reader>>

\* runtime.admit was awaited (availability, the owner's wallet).
Reserve(t, n) ==
  /\ Stage(t, n, "reserving", "reserved")
  /\ SetHold(t, n, "held")
  /\ UNCHANGED <<sessionVars, op, text, reader>>

Admitted(t, n) ==
  /\ Stage(t, n, "reserved", "admitted")
  /\ Authorized(t) /\ BeforeAdmission(t, n)
  /\ op' = [op EXCEPT ![t].paid = @ \cup {n}]
  /\ UNCHANGED <<sessionVars, text, hold, reader>>

\* The worker's error ends it: the operation fails if it is still its own.
End(t, n) ==
  /\ flight' = [flight EXCEPT ![t][n] = "none"]
  /\ text' = [text EXCEPT ![t][n] = 0]
  /\ op' = IF op[t].state = "pending" /\ op[t].fence = n THEN Failed(t) ELSE op
  /\ reader' = Wake(t)
  /\ UNCHANGED sessionVars

\* Ownership, consent or pause changed during the reservation: it is returned.
RefuseRevoked(t, n) ==
  /\ flight[t][n] = "reserved" /\ ~Authorized(t)
  /\ SetHold(t, n, "none") /\ End(t, n)

\* A later turn was admitted during the reservation.  The worker throws at
\* worker.admitted, outside the try whose finally finishes the admission, so
\* nobody returns the reservation.
RefuseObsolete(t, n) ==
  /\ flight[t][n] = "reserved" /\ Authorized(t) /\ ~BeforeAdmission(t, n)
  /\ End(t, n)
  /\ UNCHANGED hold

\* Seeded fault: nothing is read again after the consent port.
DispatchUnchecked(t, n) ==
  /\ Stage(t, n, "admitted", "streaming")
  /\ SetHold(t, n, "spent")
  /\ UNCHANGED <<sessionVars, op, text, reader>>

\* consume: the consent port was awaited, the session is read again.
Dispatch(t, n) ==
  /\ Stage(t, n, "admitted", "streaming")
  /\ Authorized(t)
  /\ SetHold(t, n, "spent")
  /\ UNCHANGED <<sessionVars, op, text, reader>>

\* The whole text is collected and committed to the transcript as the
\* controlling tab, and the reply has its identity.
Open(t, n) ==
  /\ Stage(t, n, "streaming", "replying")
  /\ Pending(t, n) /\ OwnsEpoch(t)
  /\ UNCHANGED <<sessionVars, op, text, hold, reader>>

\* The one delta of a reply that is not empty.
Delta(t, n) ==
  /\ flight[t][n] = "replying" /\ Pending(t, n) /\ text[t][n] = 0
  /\ text' \in {[text EXCEPT ![t][n] = length] : length \in 1..MaxText}
  /\ reader' = Wake(t)
  /\ UNCHANGED <<sessionVars, op, flight, hold>>

\* Reply and terminal state commit in one transaction, then readers are told.
Complete(t, n) ==
  /\ Stage(t, n, "replying", "none") /\ Pending(t, n)
  /\ op' = [op EXCEPT ![t].state = "completed", ![t].saved = text[t][n], ![t].fresh = TRUE]
  /\ text' = [text EXCEPT ![t][n] = 0]
  /\ reader' = Wake(t)
  /\ UNCHANGED <<sessionVars, hold>>

\* A provider error, a deadline or a refused check.
Fail(t, n) ==
  /\ Running(t, n) /\ flight[t][n] # "reserved"
  /\ \/ flight[t][n] = "reserving" /\ SetHold(t, n, "late")
     \/ flight[t][n] = "admitted" /\ SetHold(t, n, "none")
     \/ flight[t][n] # "admitted" /\ UNCHANGED hold
  /\ End(t, n)

\* The owner's wallet answers after the worker met its deadline.
LateReserve(t, n) ==
  /\ hold[t][n] = "late"
  /\ SetHold(t, n, IF Authorized(t) THEN "orphan" ELSE "none")
  /\ UNCHANGED <<sessionVars, op, flight, text, reader>>

WorkerStep(t, n) ==
  \/ CheckVoice(t, n) \/ Reserve(t, n) \/ Admitted(t, n) \/ RefuseRevoked(t, n) \/ RefuseObsolete(t, n)
  \/ Dispatch(t, n) \/ Open(t, n) \/ Delta(t, n) \/ Complete(t, n) \/ Fail(t, n)

-----------------------------------------------------------------------------
(* Readers *)

To(r, stage) == reader' = [reader EXCEPT ![r].stage = stage]

\* Seeded fault: a reader checks the session and not the fence.
FencedBySession(r) == ~Current(reader[r].turn)

Fenced(r) == op[reader[r].turn].fence # reader[r].fence \/ ~Current(reader[r].turn)

\* respond: flight.ready, and flight.done for a reader that does not stream.
Ready(r) ==
  LET t == reader[r].turn
      n == reader[r].fence
  IN /\ reader[r].stage = "ready"
     /\ \/ flight[t][n] = "replying" /\ r \in Streaming /\ To(r, "pull")
        \/ ~Running(t, n) /\ (op[t].state = "failed" \/ op[t].fence # n) /\ Drop(r)
        \/ /\ ~Running(t, n) /\ op[t].state = "completed" /\ op[t].fence = n
           /\ IF r \in Streaming \/ Readable(t) THEN To(r, "pull") ELSE Drop(r)
     /\ UNCHANGED <<sessionVars, op, flight, text, hold>>

\* One pull: retired epochs close it, revoked or replaced operations fail it, then
\* text, then the completion; with nothing to give the reader parks.
Pull(r) ==
  LET t == reader[r].turn
      n == reader[r].fence
      content == IF op[t].state = "completed" THEN op[t].saved ELSE text[t][n]
  IN /\ reader[r].stage = "pull"
     /\ \/ (~OwnsEpoch(t) \/ Fenced(r) \/ op[t].state = "failed") /\ Drop(r)
        \/ /\ OwnsEpoch(t) /\ ~Fenced(r) /\ op[t].state # "failed"
           /\ \/ reader[r].got < content /\ reader' = [reader EXCEPT ![r].got = @ + 1]
              \/ reader[r].got >= content /\ op[t].state = "completed" /\ To(r, "completed")
              \/ reader[r].got >= content /\ op[t].state = "pending" /\ To(r, "waiting")
     /\ UNCHANGED <<sessionVars, op, flight, text, hold>>

-----------------------------------------------------------------------------
(* The session and the process *)

Upset == upsets < MaxUpsets /\ upsets' = upsets + 1

\* Seeded fault: parked readers are not woken.
TakeoverSilently ==
  /\ Upset /\ epoch' = epoch + 1
  /\ UNCHANGED <<revision, paused, op, flight, text, hold, reader>>

\* takeover: the epoch commits, then readers of retired operations wake.
Takeover ==
  /\ Upset /\ epoch' = epoch + 1
  /\ reader' = [r \in Readers |-> IF reader[r].stage = "waiting" THEN [reader[r] EXCEPT !.stage = "pull"] ELSE reader[r]]
  /\ UNCHANGED <<revision, paused, op, flight, text, hold>>

\* Consent is changed or input withdrawn: the call's authority is aborted, and
\* with it the requests of its readers.
Revoke ==
  /\ Upset /\ revision' = revision + 1
  /\ reader' = [r \in Readers |-> IF Free(r) THEN reader[r] ELSE NoReader]
  /\ UNCHANGED <<epoch, paused, op, flight, text, hold>>

Pause ==
  /\ Upset /\ ~paused /\ paused' = TRUE
  /\ UNCHANGED <<epoch, revision, op, flight, text, hold, reader>>

Resume ==
  /\ paused /\ paused' = FALSE
  /\ UNCHANGED <<epoch, revision, upsets, op, flight, text, hold, reader>>

ReplayExpires(t) ==
  /\ op[t].fresh
  /\ op' = [op EXCEPT ![t].fresh = FALSE]
  /\ UNCHANGED <<sessionVars, flight, text, hold, reader>>

\* The process dies: workers and readers are gone.  The budget's recovery
\* returns what was reserved and never dispatched.
Restart ==
  /\ Upset
  /\ flight' = [t \in Turns |-> [n \in Attempts |-> "none"]]
  /\ text' = [t \in Turns |-> [n \in Attempts |-> 0]]
  /\ hold' = [t \in Turns |-> [n \in Attempts |->
                IF hold[t][n] = "spent" THEN "spent" ELSE "none"]]
  /\ reader' = [r \in Readers |-> NoReader]
  /\ UNCHANGED <<epoch, revision, paused, op>>

\* Seeded fault: an operation with a paid attempt is left for its worker.
RecoverUnpaid(t) ==
  /\ Abandoned(t) /\ op[t].paid = {}
  /\ op' = Failed(t)
  /\ UNCHANGED <<sessionVars, flight, text, hold, reader>>

\* turns.recover: a claim without a worker is abandoned.
Recover(t) ==
  /\ Abandoned(t)
  /\ op' = Failed(t)
  /\ UNCHANGED <<sessionVars, flight, text, hold, reader>>

Request(r) ==
  \/ \E t \in Turns :
       Claim(r, t) \/ Join(r, t) \/ Replay(r, t) \/ AskReplacement(r, t)
  \/ Replace(r) \/ ReplacedMeanwhile(r) \/ Leave(r) \/ Ready(r) \/ Pull(r)

Next ==
  \/ \E r \in Readers : Request(r)
  \/ \E t \in Turns : (\E n \in Attempts : WorkerStep(t, n) \/ LateReserve(t, n)) \/ ReplayExpires(t) \/ Recover(t)
  \/ Takeover \/ Revoke \/ Pause \/ Resume \/ Restart

\* A worker's awaits are bounded by deadlines, and recovery is run at startup.
Progress(t) ==
  op[t].state = "pending" /\ (Recover(t) \/ WorkerStep(t, op[t].fence))

Fairness == \A t \in Turns : WF_vars(Progress(t))

Spec == Init /\ [][Next]_vars /\ Fairness

-----------------------------------------------------------------------------
(* Properties *)

\* Whatever readers, replacements, takeovers and crashes interleave, a worker
\* that still runs is the one attempt its pending operation names, and every
\* paid call is on the operation's record before it is made.
WriterOwnsOperation ==
  \A t \in Turns, n \in Attempts :
    /\ Running(t, n) => op[t].state = "pending" /\ op[t].fence = n
    /\ hold[t][n] = "spent" => n \in op[t].paid

\* A reader is told of completion only with the whole reply of the very attempt
\* it followed, already saved for every later reader.
ReadersAgree ==
  \A r \in Readers : reader[r].stage = "completed" =>
    LET t == reader[r].turn
    IN op[t].state = "completed" /\ op[t].fence = reader[r].fence /\ op[t].saved = reader[r].got

\* A parked reader has a worker that will wake it, in an epoch that is not
\* retired: no request hangs on a reply that nobody writes.
NobodyLeftWaiting ==
  \A r \in Readers : reader[r].stage = "waiting" =>
    /\ OwnsEpoch(reader[r].turn)
    /\ flight[reader[r].turn][reader[r].fence] = "replying"

\* No provider is paid for a turn whose tab lost the call, whose consent or
\* input changed or whose session is paused, whichever await that happened in,
\* nor for one overtaken before it was admitted.
PaidOnlyIfCurrent ==
  [][\A t \in Turns, n \in Attempts :
       /\ hold[t][n] # "spent" /\ hold'[t][n] = "spent" => OwnsEpoch(t) /\ Current(t)
       /\ op[t].paid = {} /\ op'[t].paid # {} /\ op[t].ordered => ~Overtaken(t)]_vars

\* An operation never stays pending, crashes included: its worker
\* settles it or recovery abandons it.
Settles == \A t \in Turns : op[t].state = "pending" ~> op[t].state # "pending"

\* src/README.md: an overtaken turn is refused without a charge, and so is a
\* retired one.  A worker that reserved and was refused keeps no reservation.
RefusedCostsNothing ==
  \A t \in Turns, n \in Attempts : ~Running(t, n) => hold[t][n] # "held"
=============================================================================
