-------------------------- MODULE VoiceTurnsProofs --------------------------
(***************************************************************************)
(* Theorems about VoiceTurns for any turns, epochs and readers, any number *)
(* of attempts and replies of any length: one worker owns an operation,    *)
(* readers agree, none is left waiting, and what is paid was current.      *)
(***************************************************************************)
EXTENDS VoiceTurns, TLAPS

-----------------------------------------------------------------------------
(* The inductive invariant *)

\* A worker that runs is the attempt its pending operation names; an attempt that
\* may be paid is on the record.
WriterOK(t) ==
  /\ op[t].state = "none" => op[t].paid = {}
  /\ op[t].state # "none" => op[t].fence \in Attempts
  /\ \A n \in Attempts :
       /\ Running(t, n) => op[t].state = "pending" /\ op[t].fence = n
       /\ flight[t][n] \in {"admitted", "streaming", "replying"} => n \in op[t].paid
       /\ hold[t][n] = "spent" => n \in op[t].paid

\* A reader follows an attempt its operation has reached, and was given no more
\* than the text of that attempt; one that pulls has its worker replying.
FollowsOK(r) ==
  LET t == reader[r].turn
      n == reader[r].fence
  IN /\ t \in Turns /\ n \in Attempts /\ op[t].state # "none" /\ n <= op[t].fence
     /\ n = op[t].fence /\ op[t].state = "pending" => reader[r].got <= text[t][n]
     /\ n = op[t].fence /\ op[t].state = "completed" => reader[r].got <= op[t].saved
     /\ n = op[t].fence /\ op[t].state = "pending" /\ reader[r].stage = "pull" => flight[t][n] = "replying"
     /\ reader[r].stage = "completed" => op[t].state = "completed" /\ op[t].fence = n /\ op[t].saved = reader[r].got
     /\ reader[r].stage = "waiting" => OwnsEpoch(t) /\ flight[t][n] = "replying"

ReaderOK(r) == reader[r].stage # "idle" => FollowsOK(r)

TInv == TurnsTypeOK /\ (\A t \in Turns : WriterOK(t)) /\ (\A r \in Readers : ReaderOK(r))

-----------------------------------------------------------------------------
(* What the steps do to records and tables *)

\* One attempt's place in a table.
LEMMA Placed ==
  ASSUME NEW S, NEW f \in [Turns -> [Attempts -> S]], NEW t \in Turns, NEW n \in Attempts, NEW x \in S,
         NEW g, g = [f EXCEPT ![t][n] = x]
  PROVE  /\ g \in [Turns -> [Attempts -> S]] /\ g[t][n] = x
         /\ \A u \in Turns, m \in Attempts : u # t \/ m # n => g[u][m] = f[u][m]
OBVIOUS

\* One operation's record.
OnlyOp(t) == op' \in [Turns -> Operation] /\ \A u \in Turns : u # t => op'[u] = op[u]

\* Failing an operation changes only its state.
LEMMA FailedDoes ==
  ASSUME TurnsTypeOK, NEW t \in Turns, op' = Failed(t)
  PROVE  /\ OnlyOp(t) /\ op'[t].state = "failed" /\ op'[t].fence = op[t].fence /\ op'[t].paid = op[t].paid
         /\ op'[t].saved = op[t].saved
<1> DEFINE e == [op[t] EXCEPT !.state = "failed"]
<1>1. op \in [Turns -> Operation] /\ op[t] \in Operation
  BY DEF TurnsTypeOK
<1>2. e \in Operation /\ e.state = "failed" /\ e.fence = op[t].fence /\ e.paid = op[t].paid /\ e.saved = op[t].saved
  BY <1>1 DEF Operation
<1>3. op' = [op EXCEPT ![t] = e]
  BY <1>1 DEF Failed
<1> HIDE DEF e
<1> QED
  BY <1>1, <1>2, <1>3 DEF OnlyOp

\* A replacement changes the attempt an operation names and makes it pending.
LEMMA ReplacedDoes ==
  ASSUME TurnsTypeOK, NEW t \in Turns, NEW n \in Attempts,
         op' = [op EXCEPT ![t].state = "pending", ![t].fence = n]
  PROVE  /\ OnlyOp(t) /\ op'[t].state = "pending" /\ op'[t].fence = n /\ op'[t].paid = op[t].paid
<1> DEFINE e == [op[t] EXCEPT !.state = "pending", !.fence = n]
<1>1. op \in [Turns -> Operation] /\ op[t] \in Operation /\ n \in 0..MaxAttempts
  BY TurnAssumption DEF TurnsTypeOK, Attempts
<1>2. e \in Operation /\ e.state = "pending" /\ e.fence = n /\ e.paid = op[t].paid
  BY <1>1 DEF Operation
<1>3. op' = [op EXCEPT ![t] = e]
  BY <1>1
<1> HIDE DEF e
<1> QED
  BY <1>1, <1>2, <1>3 DEF OnlyOp

\* An admission puts its attempt on the record.
LEMMA PaidDoes ==
  ASSUME TurnsTypeOK, NEW t \in Turns, NEW n \in Attempts, op' = [op EXCEPT ![t].paid = @ \cup {n}]
  PROVE  /\ OnlyOp(t) /\ op'[t].state = op[t].state /\ op'[t].fence = op[t].fence /\ op'[t].saved = op[t].saved
         /\ op'[t].paid = op[t].paid \cup {n}
<1> DEFINE k == op[t].paid \cup {n}
           e == [op[t] EXCEPT !.paid = k]
<1>1. op \in [Turns -> Operation] /\ op[t] \in Operation
  BY DEF TurnsTypeOK
<1>2. k \in SUBSET Attempts
  BY <1>1 DEF Operation
<1>3. op' = [op EXCEPT ![t] = e]
  BY <1>1
<1> HIDE DEF k
<1>4. e \in Operation /\ e.state = op[t].state /\ e.fence = op[t].fence /\ e.saved = op[t].saved /\ e.paid = k
  BY <1>1, <1>2 DEF Operation
<1> HIDE DEF e
<1> QED
  BY <1>1, <1>3, <1>4 DEF OnlyOp, k

\* A completion saves the reply of the attempt on record.
LEMMA CompletedDoes ==
  ASSUME TurnsTypeOK, NEW t \in Turns, NEW k \in Nat,
         op' = [op EXCEPT ![t].state = "completed", ![t].saved = k, ![t].fresh = TRUE]
  PROVE  /\ OnlyOp(t) /\ op'[t].state = "completed" /\ op'[t].fence = op[t].fence /\ op'[t].saved = k
         /\ op'[t].paid = op[t].paid
<1> DEFINE e == [op[t] EXCEPT !.state = "completed", !.saved = k, !.fresh = TRUE]
<1>1. op \in [Turns -> Operation] /\ op[t] \in Operation
  BY DEF TurnsTypeOK
<1>2. e \in Operation /\ e.state = "completed" /\ e.fence = op[t].fence /\ e.saved = k /\ e.paid = op[t].paid
  BY <1>1 DEF Operation
<1>3. op' = [op EXCEPT ![t] = e]
  BY <1>1
<1> HIDE DEF e
<1> QED
  BY ZenonT(60), <1>1, <1>2, <1>3 DEF OnlyOp

\* An expired replay keeps the record of its operation.
LEMMA ExpiredDoes ==
  ASSUME TurnsTypeOK, NEW t \in Turns, op' = [op EXCEPT ![t].fresh = FALSE]
  PROVE  /\ OnlyOp(t) /\ op'[t].state = op[t].state /\ op'[t].fence = op[t].fence /\ op'[t].saved = op[t].saved
         /\ op'[t].paid = op[t].paid
<1> DEFINE e == [op[t] EXCEPT !.fresh = FALSE]
<1>1. op \in [Turns -> Operation] /\ op[t] \in Operation
  BY DEF TurnsTypeOK
<1>2. e \in Operation /\ e.state = op[t].state /\ e.fence = op[t].fence /\ e.saved = op[t].saved /\ e.paid = op[t].paid
  BY <1>1 DEF Operation
<1>3. op' = [op EXCEPT ![t] = e]
  BY <1>1
<1> HIDE DEF e
<1> QED
  BY <1>1, <1>2, <1>3 DEF OnlyOp

\* A claim is of a turn nobody has seen.
LEMMA ClaimedDoes ==
  ASSUME TurnsTypeOK, NEW t \in Turns, NEW v \in BOOLEAN,
         op' = [op EXCEPT ![t] = [NoOperation EXCEPT !.state = "pending", !.fence = 1, !.rev = revision, !.ordered = v]]
  PROVE  OnlyOp(t) /\ op'[t].state = "pending" /\ op'[t].fence = 1 /\ op'[t].paid = {}
<1> DEFINE e == [NoOperation EXCEPT !.state = "pending", !.fence = 1, !.rev = revision, !.ordered = v]
<1>1. op \in [Turns -> Operation] /\ revision \in Nat /\ 1 \in 0..MaxAttempts /\ 0 \in 0..MaxAttempts
  BY TurnAssumption DEF TurnsTypeOK
<1>2. NoOperation \in Operation /\ NoOperation.paid = {}
  BY <1>1 DEF NoOperation, Operation
<1>3. e \in Operation /\ e.state = "pending" /\ e.fence = 1 /\ e.paid = {}
  BY <1>1, <1>2 DEF Operation
<1>4. op' = [op EXCEPT ![t] = e]
  OBVIOUS
<1> HIDE DEF e
<1> QED
  BY <1>1, <1>3, <1>4 DEF OnlyOp

\* One reader comes to another stage.
LEMMA ToDoes ==
  ASSUME TurnsTypeOK, NEW r \in Readers,
         NEW stage \in {"idle", "authorizing", "ready", "pull", "waiting", "completed"}, To(r, stage)
  PROVE  /\ reader' \in [Readers -> Reader] /\ \A q \in Readers : q # r => reader'[q] = reader[q]
         /\ reader'[r].stage = stage /\ reader'[r].turn = reader[r].turn /\ reader'[r].fence = reader[r].fence
         /\ reader'[r].got = reader[r].got
<1> DEFINE e == [reader[r] EXCEPT !.stage = stage]
<1>1. reader \in [Readers -> Reader] /\ reader[r] \in Reader
  BY DEF TurnsTypeOK
<1>2. e \in Reader /\ e.stage = stage /\ e.turn = reader[r].turn /\ e.fence = reader[r].fence /\ e.got = reader[r].got
  BY <1>1 DEF Reader
<1>3. reader' = [reader EXCEPT ![r] = e]
  BY <1>1 DEF To
<1> HIDE DEF e
<1> QED
  BY <1>1, <1>2, <1>3

\* A reader that follows an attempt begins with nothing of its text.
LEMMA FollowDoes ==
  ASSUME TurnsTypeOK, NEW r \in Readers, NEW t \in Turns, NEW n \in 0..MaxAttempts,
         NEW stage \in {"idle", "authorizing", "ready", "pull", "waiting", "completed"}, Follow(r, t, n, stage)
  PROVE  /\ reader' \in [Readers -> Reader] /\ \A q \in Readers : q # r => reader'[q] = reader[q]
         /\ reader'[r].stage = stage /\ reader'[r].turn = t /\ reader'[r].fence = n /\ reader'[r].got = 0
<1> DEFINE e == [stage |-> stage, turn |-> t, fence |-> n, got |-> 0]
<1>1. reader \in [Readers -> Reader]
  BY DEF TurnsTypeOK
<1>2. e \in Reader /\ e.stage = stage /\ e.turn = t /\ e.fence = n /\ e.got = 0
  BY DEF Reader
<1>3. reader' = [reader EXCEPT ![r] = e]
  BY DEF Follow
<1> HIDE DEF e
<1> QED
  BY <1>1, <1>2, <1>3

\* A reader that leaves disturbs no other.
LEMMA DropDoes ==
  ASSUME TurnsTypeOK, NEW r \in Readers, Drop(r)
  PROVE  /\ reader' \in [Readers -> Reader] /\ \A q \in Readers : q # r => reader'[q] = reader[q]
         /\ reader'[r].stage = "idle"
<1>1. NoReader \in Reader /\ NoReader.stage = "idle"
  BY TurnAssumption DEF NoReader, Reader
<1> QED
  BY <1>1 DEF Drop, TurnsTypeOK

\* Readers that are woken pull again; they are otherwise as they were.
Woken ==
  /\ reader' \in [Readers -> Reader]
  /\ \A r \in Readers : /\ reader'[r].turn = reader[r].turn /\ reader'[r].fence = reader[r].fence
                        /\ reader'[r].got = reader[r].got
                        /\ reader'[r].stage = reader[r].stage \/ (reader[r].stage = "waiting" /\ reader'[r].stage = "pull")

\* A wake-up leaves no reader of the turn waiting.
LEMMA WakeDoes ==
  ASSUME TurnsTypeOK, NEW t \in Turns, reader' = Wake(t)
  PROVE  Woken /\ \A r \in Readers : reader[r].turn = t => reader'[r].stage # "waiting"
<1> DEFINE e(r) == [reader[r] EXCEPT !.stage = "pull"]
<1>1. \A r \in Readers : reader[r] \in Reader
  BY DEF TurnsTypeOK
<1>2. \A r \in Readers : /\ e(r) \in Reader /\ e(r).stage = "pull" /\ e(r).turn = reader[r].turn
                         /\ e(r).fence = reader[r].fence /\ e(r).got = reader[r].got
  BY <1>1 DEF Reader
<1>3. reader' = [r \in Readers |-> IF reader[r].stage = "waiting" /\ reader[r].turn = t THEN e(r) ELSE reader[r]]
  BY DEF Wake
<1> HIDE DEF e
<1> QED
  BY <1>1, <1>2, <1>3 DEF Woken

-----------------------------------------------------------------------------
(* Requests and readers *)

\* A step that leaves operations, workers and texts alone.
OnlyReaders == UNCHANGED <<op, flight, text>>

\* Steps of readers keep what is known of the workers.
LEMMA QuietWriters ==
  ASSUME TInv, OnlyReaders, hold' \in [Turns -> [Attempts -> Holds]],
         \A t \in Turns, n \in Attempts : hold'[t][n] = "spent" => hold[t][n] = "spent"
  PROVE  \A t \in Turns : WriterOK(t)'
BY DEF TInv, WriterOK, Running, OnlyReaders

\* What is known of the workers of a turn survives steps that leave that turn alone.
LEMMA QuietWriter ==
  ASSUME NEW u \in Turns, WriterOK(u), op'[u] = op[u], \A m \in Attempts : flight'[u][m] = flight[u][m],
         \A m \in Attempts : hold'[u][m] = "spent" => hold[u][m] = "spent"
  PROVE  WriterOK(u)'
BY DEF WriterOK, Running

\* What is known of a reader survives steps of other readers.
LEMMA QuietReader ==
  ASSUME NEW r \in Readers, ReaderOK(r), OnlyReaders, epoch' = epoch, reader'[r] = reader[r]
  PROVE  ReaderOK(r)'
BY DEF ReaderOK, FollowsOK, OnlyReaders, OwnsEpoch

\* What is known of a reader, woken or not, survives steps that leave its turn alone.
LEMMA OtherTurn ==
  ASSUME NEW q \in Readers, ReaderOK(q), epoch' = epoch, Woken \/ reader'[q] = reader[q],
         op'[reader[q].turn] = op[reader[q].turn],
         \A m \in Attempts : /\ flight'[reader[q].turn][m] = flight[reader[q].turn][m]
                             /\ text'[reader[q].turn][m] = text[reader[q].turn][m]
  PROVE  ReaderOK(q)'
<1>1. /\ reader'[q].turn = reader[q].turn /\ reader'[q].fence = reader[q].fence /\ reader'[q].got = reader[q].got
      /\ reader'[q].stage = reader[q].stage \/ (reader[q].stage = "waiting" /\ reader'[q].stage = "pull")
  BY DEF Woken
<1>2. CASE reader[q].stage = "idle"
  BY <1>1, <1>2 DEF ReaderOK
<1>3. CASE reader[q].stage # "idle"
  <2>1. FollowsOK(q)
    BY <1>3 DEF ReaderOK
  <2>2. OwnsEpoch(reader[q].turn)' <=> OwnsEpoch(reader[q].turn)
    BY <1>1 DEF OwnsEpoch
  <2> QED
    BY <1>1, <2>1, <2>2 DEF ReaderOK, FollowsOK
<1> QED
  BY <1>2, <1>3

\* The requests of a reader about a turn.
LEMMA ClaimKeeps == ASSUME TInv, NEW r \in Readers, NEW t \in Turns, Claim(r, t) PROVE TInv'
<1>0. TurnsTypeOK /\ 1 \in Attempts /\ 1 \in 0..MaxAttempts
  BY TurnAssumption DEF TInv, Attempts
<1>1. /\ op[t].state = "none" /\ UNCHANGED <<epoch, revision, paused, upsets, text, hold>>
      /\ Follow(r, t, 1, "ready") /\ flight' = [flight EXCEPT ![t][1] = "checking"]
  BY DEF Claim, StartWorker, sessionVars
<1>2. OnlyOp(t) /\ op'[t].state = "pending" /\ op'[t].fence = 1 /\ op'[t].paid = {}
  <2>1. \E v \in BOOLEAN : op' = [op EXCEPT ![t] = [NoOperation EXCEPT !.state = "pending", !.fence = 1,
                                                                      !.rev = revision, !.ordered = v]]
    <3> DEFINE v == OrdinalOf[t] # 0 /\ ~Overtaken(t)
    <3>1. v \in BOOLEAN
      OBVIOUS
    <3>2. op' = [op EXCEPT ![t] = [NoOperation EXCEPT !.state = "pending", !.fence = 1, !.rev = revision, !.ordered = v]]
      BY DEF Claim
    <3> HIDE DEF v
    <3> QED
      BY <3>1, <3>2
  <2> QED
    BY <1>0, <2>1, ClaimedDoes
<1>3. /\ reader' \in [Readers -> Reader] /\ \A q \in Readers : q # r => reader'[q] = reader[q]
      /\ reader'[r].stage = "ready" /\ reader'[r].turn = t /\ reader'[r].fence = 1 /\ reader'[r].got = 0
  BY <1>0, <1>1, FollowDoes
<1>4. /\ flight' \in [Turns -> [Attempts -> Stages]] /\ flight'[t][1] = "checking"
      /\ \A u \in Turns, m \in Attempts : u # t \/ m # 1 => flight'[u][m] = flight[u][m]
  BY <1>0, <1>1, Placed DEF TurnsTypeOK, Stages
<1>5. TurnsTypeOK'
  BY <1>0, <1>1, <1>2, <1>3, <1>4 DEF TurnsTypeOK, OnlyOp
<1>6. \A u \in Turns : WriterOK(u)'
  <2> SUFFICES ASSUME NEW u \in Turns PROVE WriterOK(u)'
    OBVIOUS
  <2>1. WriterOK(u)
    BY DEF TInv
  <2> QED
    BY <1>0, <1>1, <1>2, <1>4, <2>1 DEF WriterOK, Running, OnlyOp
<1>7. \A q \in Readers : ReaderOK(q)'
  <2> SUFFICES ASSUME NEW q \in Readers PROVE ReaderOK(q)'
    OBVIOUS
  <2>1. CASE q = r
    <3>1. text'[t][1] \in Nat
      BY <1>0, <1>1 DEF TurnsTypeOK
    <3> QED
      BY <1>0, <1>2, <1>3, <2>1, <3>1 DEF ReaderOK, FollowsOK
  <2>2. CASE q # r
    <3>1. reader'[q] = reader[q] /\ ReaderOK(q)
      BY <1>3, <2>2 DEF TInv
    <3>2. reader[q].stage # "idle" => reader[q].turn # t
      BY <1>1, <3>1 DEF ReaderOK, FollowsOK
    <3> QED
      BY <1>1, <1>2, <1>4, <3>1, <3>2 DEF ReaderOK, FollowsOK, OnlyOp, OwnsEpoch
  <2> QED
    BY <2>1, <2>2
<1> QED
  BY <1>5, <1>6, <1>7 DEF TInv

\* A reader that follows a worker or a saved reply that is there.
LEMMA FollowKeeps ==
  ASSUME TInv, NEW r \in Readers, NEW t \in Turns, NEW n \in Attempts, NEW stage \in {"ready", "pull", "authorizing"},
         Follow(r, t, n, stage), n = op[t].fence, op[t].state # "none", stage = "pull" => op[t].state = "completed",
         UNCHANGED <<epoch, revision, paused, upsets, op, flight, text, hold>>
  PROVE  TInv'
<1>0. TurnsTypeOK /\ n \in 0..MaxAttempts
  BY TurnAssumption DEF TInv, Attempts
<1>1. /\ reader' \in [Readers -> Reader] /\ \A q \in Readers : q # r => reader'[q] = reader[q]
      /\ reader'[r].stage = stage /\ reader'[r].turn = t /\ reader'[r].fence = n /\ reader'[r].got = 0
  BY <1>0, FollowDoes
<1>2. TurnsTypeOK'
  BY <1>0, <1>1 DEF TurnsTypeOK
<1>3. \A u \in Turns : WriterOK(u)'
  BY QuietWriters DEF OnlyReaders, TInv, TurnsTypeOK
<1>4. ASSUME NEW q \in Readers PROVE ReaderOK(q)'
  <2>1. CASE q = r
    <3>1. text[t][n] \in Nat /\ op[t].saved \in Nat /\ op[t].fence \in Nat
      BY <1>0, TurnAssumption DEF TurnsTypeOK, Operation
    <3> QED
      BY <1>0, <1>1, <2>1, <3>1 DEF ReaderOK, FollowsOK
  <2>2. CASE q # r
    BY <1>1, <2>2, QuietReader DEF TInv, OnlyReaders
  <2> QED
    BY <2>1, <2>2
<1> QED
  BY <1>2, <1>3, <1>4 DEF TInv

\* A reader that is dropped.
LEMMA DropKeeps ==
  ASSUME TInv, NEW r \in Readers, Drop(r), UNCHANGED <<epoch, revision, paused, upsets, op, flight, text, hold>>
  PROVE  TInv'
<1>1. /\ reader' \in [Readers -> Reader] /\ \A q \in Readers : q # r => reader'[q] = reader[q]
      /\ reader'[r].stage = "idle"
  BY DropDoes DEF TInv
<1>2. TurnsTypeOK'
  BY <1>1 DEF TInv, TurnsTypeOK
<1>3. \A u \in Turns : WriterOK(u)'
  BY QuietWriters DEF OnlyReaders, TInv, TurnsTypeOK
<1>4. ASSUME NEW q \in Readers PROVE ReaderOK(q)'
  <2>1. CASE q = r
    BY <1>1, <2>1 DEF ReaderOK
  <2>2. CASE q # r
    BY <1>1, <2>2, QuietReader DEF TInv, OnlyReaders
  <2> QED
    BY <2>1, <2>2
<1> QED
  BY <1>2, <1>3, <1>4 DEF TInv

\* A reader that comes to another stage of what it follows.
LEMMA StageKeeps ==
  ASSUME TInv, NEW r \in Readers, reader[r].stage \notin {"idle", "completed"},
         NEW stage \in {"pull", "waiting", "completed"}, To(r, stage),
         LET t == reader[r].turn
             n == reader[r].fence
         IN /\ stage = "pull" /\ op[t].state = "pending" => flight[t][n] = "replying"
            /\ stage = "waiting" => op[t].state = "pending" /\ op[t].fence = n /\ reader[r].stage = "pull" /\ OwnsEpoch(t)
            /\ stage = "completed" => op[t].state = "completed" /\ op[t].fence = n /\ reader[r].got >= op[t].saved,
         UNCHANGED <<epoch, revision, paused, upsets, op, flight, text, hold>>
  PROVE  TInv'
<1>1. /\ reader' \in [Readers -> Reader] /\ \A q \in Readers : q # r => reader'[q] = reader[q]
      /\ reader'[r].stage = stage /\ reader'[r].turn = reader[r].turn /\ reader'[r].fence = reader[r].fence
      /\ reader'[r].got = reader[r].got
  BY ToDoes DEF TInv
<1>2. TurnsTypeOK'
  BY <1>1 DEF TInv, TurnsTypeOK
<1>3. \A u \in Turns : WriterOK(u)'
  BY QuietWriters DEF OnlyReaders, TInv, TurnsTypeOK
<1>4. ASSUME NEW q \in Readers PROVE ReaderOK(q)'
  <2>1. CASE q = r
    <3>1. FollowsOK(r) /\ reader[r].got \in Nat
      BY DEF TInv, ReaderOK, TurnsTypeOK, Reader
    <3>2. op[reader[r].turn].saved \in Nat
      BY <3>1 DEF TInv, TurnsTypeOK, Operation, FollowsOK
    <3> QED
      BY <1>1, <2>1, <3>1, <3>2 DEF ReaderOK, FollowsOK, OwnsEpoch
  <2>2. CASE q # r
    BY <1>1, <2>2, QuietReader DEF TInv, OnlyReaders
  <2> QED
    BY <2>1, <2>2
<1> QED
  BY <1>2, <1>3, <1>4 DEF TInv

\* A reader that is given the next piece.
LEMMA GivenKeeps ==
  ASSUME TInv, NEW r \in Readers, reader[r].stage = "pull", reader' = [reader EXCEPT ![r].got = @ + 1],
         LET t == reader[r].turn
             n == reader[r].fence
         IN reader[r].got < (IF op[t].state = "completed" THEN op[t].saved ELSE text[t][n]),
         UNCHANGED <<epoch, revision, paused, upsets, op, flight, text, hold>>
  PROVE  TInv'
<1> DEFINE k == reader[r].got + 1
           e == [reader[r] EXCEPT !.got = k]
<1>0. reader \in [Readers -> Reader] /\ reader[r] \in Reader /\ k \in Nat /\ reader[r].got \in Nat
  BY DEF TInv, TurnsTypeOK, Reader
<1>1. reader' = [reader EXCEPT ![r] = e]
  BY <1>0
<1>k. k = reader[r].got + 1
  OBVIOUS
<1> HIDE DEF k
<1>2. e \in Reader /\ e.got = k /\ e.stage = "pull" /\ e.turn = reader[r].turn /\ e.fence = reader[r].fence
  BY <1>0 DEF Reader
<1> HIDE DEF e
<1>3. reader' \in [Readers -> Reader] /\ reader'[r] = e /\ \A q \in Readers : q # r => reader'[q] = reader[q]
  BY <1>0, <1>1, <1>2
<1>4. TurnsTypeOK'
  BY <1>3 DEF TInv, TurnsTypeOK
<1>5. \A u \in Turns : WriterOK(u)'
  BY QuietWriters DEF OnlyReaders, TInv, TurnsTypeOK
<1>6. ASSUME NEW q \in Readers PROVE ReaderOK(q)'
  <2>1. CASE q = r
    <3>1. FollowsOK(r)
      BY DEF TInv, ReaderOK
    <3>2. op[reader[r].turn].saved \in Nat /\ text[reader[r].turn][reader[r].fence] \in Nat
      BY <3>1 DEF TInv, TurnsTypeOK, Operation, FollowsOK
    <3> QED
      BY <1>0, <1>k, <1>2, <1>3, <2>1, <3>1, <3>2 DEF ReaderOK, FollowsOK
  <2>2. CASE q # r
    BY <1>3, <2>2, QuietReader DEF TInv, OnlyReaders
  <2> QED
    BY <2>1, <2>2
<1> QED
  BY <1>4, <1>5, <1>6 DEF TInv

\* A request joins a worker, reads a saved reply, or asks for a replacement.
LEMMA JoinKeeps == ASSUME TInv, NEW r \in Readers, NEW t \in Turns, Join(r, t) PROVE TInv'
<1>1. op[t].state = "pending" /\ op[t].fence \in Attempts
  BY DEF Join, BeforeAdmission, Pending, TInv, WriterOK
<1> QED
  BY <1>1, FollowKeeps DEF Join, sessionVars

\* A replay of a completed operation follows the saved reply.
LEMMA ReplayKeeps == ASSUME TInv, NEW r \in Readers, NEW t \in Turns, Replay(r, t) PROVE TInv'
<1>1. op[t].state = "completed" /\ op[t].fence \in Attempts
  BY DEF Replay, TInv, WriterOK
<1> QED
  BY <1>1, FollowKeeps DEF Replay, sessionVars

\* An operation whose worker is gone fails; its readers keep what they follow.
LEMMA AbandonKeeps ==
  ASSUME TInv, NEW t \in Turns, op' = Failed(t), Abandoned(t),
         UNCHANGED <<epoch, revision, paused, upsets, flight, text, hold, reader>>
  PROVE  TInv'
<1>1. /\ OnlyOp(t) /\ op'[t].state = "failed" /\ op'[t].fence = op[t].fence /\ op'[t].paid = op[t].paid
      /\ op[t].state = "pending"
  BY FailedDoes DEF TInv, Abandoned
<1>2. TurnsTypeOK'
  BY <1>1 DEF TInv, TurnsTypeOK, OnlyOp
<1>3. ASSUME NEW u \in Turns PROVE WriterOK(u)'
  BY <1>1 DEF TInv, WriterOK, Running, OnlyOp, Abandoned
<1>4. ASSUME NEW q \in Readers PROVE ReaderOK(q)'
  <2>1. ReaderOK(q)
    BY DEF TInv
  <2>2. reader[q].stage = "waiting" => reader[q].turn # t
    <3>1. \A n \in Attempts : flight[t][n] = "replying" => FALSE
      BY <1>1 DEF TInv, WriterOK, Running, Abandoned
    <3> QED
      BY <2>1, <3>1 DEF ReaderOK, FollowsOK
  <2> QED
    BY <1>1, <2>1, <2>2 DEF ReaderOK, FollowsOK, OnlyOp, OwnsEpoch
<1> QED
  BY <1>2, <1>3, <1>4 DEF TInv

\* The two halves of a request that abandons a claim touch different state: the
\* operation first, then the reader.
LEMMA AskReplacementKeeps == ASSUME TInv, NEW r \in Readers, NEW t \in Turns, AskReplacement(r, t) PROVE TInv'
<1>0. /\ UNCHANGED <<epoch, revision, paused, upsets, flight, text, hold>>
      /\ Follow(r, t, op[t].fence, "authorizing") /\ TurnsTypeOK
      /\ (op[t].state = "failed" /\ UNCHANGED op) \/ (Abandoned(t) /\ op' = Failed(t))
  BY DEF AskReplacement, sessionVars, TInv
<1>1. CASE op[t].state = "failed" /\ UNCHANGED op
  <2>1. op[t].fence \in Attempts
    BY <1>1 DEF TInv, WriterOK
  <2> QED
    BY <1>0, <1>1, <2>1, FollowKeeps
<1>2. CASE Abandoned(t) /\ op' = Failed(t)
  <2>1. /\ OnlyOp(t) /\ op'[t].state = "failed" /\ op'[t].fence = op[t].fence /\ op'[t].paid = op[t].paid
        /\ op[t].state = "pending"
    BY <1>0, <1>2, FailedDoes DEF Abandoned
  <2>2. op[t].fence \in Attempts /\ op[t].fence \in 0..MaxAttempts
    BY <2>1, TurnAssumption DEF TInv, WriterOK, Attempts
  <2>3. /\ reader' \in [Readers -> Reader] /\ \A q \in Readers : q # r => reader'[q] = reader[q]
        /\ reader'[r].stage = "authorizing" /\ reader'[r].turn = t /\ reader'[r].fence = op[t].fence
        /\ reader'[r].got = 0
    BY <1>0, <2>2, FollowDoes
  <2>4. TurnsTypeOK'
    BY <1>0, <2>1, <2>3 DEF TurnsTypeOK, OnlyOp
  <2>5. ASSUME NEW u \in Turns PROVE WriterOK(u)'
    BY <1>0, <1>2, <2>1 DEF TInv, WriterOK, Running, OnlyOp, Abandoned
  <2>6. ASSUME NEW q \in Readers PROVE ReaderOK(q)'
    <3>1. CASE q = r
      <4>1. op[t].fence \in Nat
        BY <2>2 DEF Attempts
      <4> QED
        BY <2>1, <2>2, <2>3, <3>1, <4>1 DEF ReaderOK, FollowsOK
    <3>2. CASE q # r
      <4>1. ReaderOK(q) /\ reader'[q] = reader[q]
        BY <2>3, <3>2 DEF TInv
      <4>2. reader[q].stage = "waiting" => reader[q].turn # t
        <5>1. \A n \in Attempts : flight[t][n] = "replying" => FALSE
          BY <1>2, <2>1 DEF TInv, WriterOK, Running, Abandoned
        <5> QED
          BY <4>1, <5>1 DEF ReaderOK, FollowsOK
      <4> QED
        BY <1>0, <2>1, <4>1, <4>2 DEF ReaderOK, FollowsOK, OnlyOp, OwnsEpoch
    <3> QED
      BY <3>1, <3>2
  <2> QED
    BY <2>4, <2>5, <2>6 DEF TInv
<1> QED
  BY <1>0, <1>1, <1>2

\* A replacement moves the fence: readers of the attempt before it are behind.
LEMMA ReplaceKeeps == ASSUME TInv, NEW r \in Readers, Replace(r) PROVE TInv'
<1> DEFINE t == reader[r].turn
           n == op[t].fence + 1
<1>0. /\ UNCHANGED <<epoch, revision, paused, upsets, text, hold>> /\ TurnsTypeOK
      /\ Follow(r, t, n, "ready") /\ n \in Attempts /\ op[t].state = "failed"
      /\ flight' = [flight EXCEPT ![t][n] = "checking"]
      /\ op' = [op EXCEPT ![t].state = "pending", ![t].fence = n]
      /\ reader[r].stage = "authorizing"
  BY DEF Replace, StartWorker, sessionVars, TInv, Replaceable
<1>1. t \in Turns /\ op[t].fence \in Attempts /\ n \in 0..MaxAttempts
  <2>1. FollowsOK(r)
    BY <1>0 DEF TInv, ReaderOK
  <2>2. t \in Turns
    BY <2>1 DEF FollowsOK
  <2> QED
    BY <1>0, <2>2, TurnAssumption DEF TInv, WriterOK, Attempts
<1>k. n = op[t].fence + 1 /\ op[t].fence \in Nat /\ t = reader[r].turn
  BY <1>1 DEF Attempts
<1> HIDE DEF n, t
<1>2. OnlyOp(t) /\ op'[t].state = "pending" /\ op'[t].fence = n /\ op'[t].paid = op[t].paid
  BY <1>0, <1>1, ReplacedDoes
<1>3. /\ reader' \in [Readers -> Reader] /\ \A q \in Readers : q # r => reader'[q] = reader[q]
      /\ reader'[r].stage = "ready" /\ reader'[r].turn = t /\ reader'[r].fence = n /\ reader'[r].got = 0
  BY <1>0, <1>1, FollowDoes
<1>4. /\ flight' \in [Turns -> [Attempts -> Stages]] /\ flight'[t][n] = "checking"
      /\ \A u \in Turns, m \in Attempts : u # t \/ m # n => flight'[u][m] = flight[u][m]
  BY <1>0, <1>1, Placed DEF TurnsTypeOK, Stages
<1>5. TurnsTypeOK'
  BY <1>0, <1>2, <1>3, <1>4 DEF TurnsTypeOK, OnlyOp
<1>6. \A u \in Turns : WriterOK(u)'
  <2> SUFFICES ASSUME NEW u \in Turns PROVE WriterOK(u)'
    OBVIOUS
  <2>1. WriterOK(u)
    BY DEF TInv
  <2> QED
    BY <1>0, <1>2, <1>4, <2>1 DEF WriterOK, Running, OnlyOp
<1>7. \A q \in Readers : ReaderOK(q)'
  <2> SUFFICES ASSUME NEW q \in Readers PROVE ReaderOK(q)'
    OBVIOUS
  <2>1. CASE q = r
    <3>1. text'[t][n] \in Nat
      BY <1>0, <1>1 DEF TurnsTypeOK
    <3>2. n <= n
      BY <1>0 DEF Attempts
    <3>3. reader'[r].got <= text'[t][n]
      BY <1>3, <3>1
    <3>4. FollowsOK(r)'
      BY <1>0, <1>1, <1>2, <1>3, <3>2, <3>3 DEF FollowsOK
    <3> QED
      BY <2>1, <3>4 DEF ReaderOK
  <2>2. CASE q # r
    <3>1. reader'[q] = reader[q] /\ ReaderOK(q)
      BY <1>3, <2>2 DEF TInv
    <3>2. CASE reader[q].stage = "idle"
      BY <3>1, <3>2 DEF ReaderOK
    <3>3. CASE reader[q].stage # "idle" /\ reader[q].turn # t
      <4>1. reader[q].turn \in Turns
        BY <3>1, <3>3 DEF ReaderOK, FollowsOK
      <4> QED
        BY <1>0, <1>2, <1>4, <3>1, <3>3, <4>1, OtherTurn DEF OnlyOp
    <3>4. CASE reader[q].stage # "idle" /\ reader[q].turn = t
      <4>1. reader[q].fence \in Attempts /\ reader[q].fence <= op[t].fence /\ reader[q].fence \in Nat
        BY <3>1, <3>4 DEF ReaderOK, FollowsOK, Attempts
      <4>2. reader[q].fence # n /\ reader[q].fence <= n
        BY <1>k, <4>1
      <4>3. reader[q].stage # "waiting" /\ reader[q].stage # "completed"
        BY <1>0, <1>1, <3>1, <3>4 DEF ReaderOK, FollowsOK, TInv, WriterOK, Running
      <4> QED
        BY <1>1, <1>2, <3>1, <3>4, <4>1, <4>2, <4>3 DEF ReaderOK, FollowsOK
    <3> QED
      BY <3>2, <3>3, <3>4
  <2> QED
    BY <2>1, <2>2
<1> QED
  BY <1>5, <1>6, <1>7 DEF TInv

\* A reader authorized too late to replace an attempt follows the worker or the reply it finds.
LEMMA ReplacedMeanwhileKeeps == ASSUME TInv, NEW r \in Readers, ReplacedMeanwhile(r) PROVE TInv'
<1> DEFINE t == reader[r].turn
           n == op[t].fence
<1>1. FollowsOK(r)
  BY DEF TInv, ReaderOK, ReplacedMeanwhile
<1>2. t \in Turns /\ op[t].state # "none"
  BY <1>1 DEF FollowsOK
<1>3. n \in Attempts
  BY <1>2 DEF TInv, WriterOK
<1>4. UNCHANGED <<epoch, revision, paused, upsets, op, flight, text, hold>>
  BY DEF ReplacedMeanwhile, sessionVars
<1>5. Follow(r, t, n, "ready") \/ (op[t].state = "completed" /\ Follow(r, t, n, "pull"))
  BY DEF ReplacedMeanwhile
<1> HIDE DEF n, t
<1>6. n = op[t].fence
  BY DEF n
<1> QED
  BY <1>2, <1>3, <1>4, <1>5, <1>6, FollowKeeps

\* A reader that waits for its worker, that pulls or that leaves.
LEMMA LeaveKeeps == ASSUME TInv, NEW r \in Readers, Leave(r) PROVE TInv'
BY DropKeeps DEF Leave, sessionVars

\* A reader whose attempt has an outcome pulls or leaves.
LEMMA ReadyKeeps == ASSUME TInv, NEW r \in Readers, Ready(r) PROVE TInv'
<1> DEFINE t == reader[r].turn
           n == reader[r].fence
<1>1. /\ UNCHANGED <<epoch, revision, paused, upsets, op, flight, text, hold>> /\ reader[r].stage = "ready"
      /\ \/ flight[t][n] = "replying" /\ To(r, "pull")
         \/ Drop(r)
         \/ op[t].state = "completed" /\ To(r, "pull")
  BY DEF Ready, sessionVars
<1>2. CASE Drop(r)
  BY <1>1, <1>2, DropKeeps
<1>3. CASE To(r, "pull") /\ (flight[t][n] = "replying" \/ op[t].state = "completed")
  BY <1>1, <1>3, StageKeeps
<1> QED
  BY <1>1, <1>2, <1>3

\* A reader pulls no more than the worker has written.
LEMMA PullKeeps == ASSUME TInv, NEW r \in Readers, Pull(r) PROVE TInv'
<1> DEFINE t == reader[r].turn
           n == reader[r].fence
           content == IF op[t].state = "completed" THEN op[t].saved ELSE text[t][n]
<1>1. /\ UNCHANGED <<epoch, revision, paused, upsets, op, flight, text, hold>> /\ reader[r].stage = "pull"
      /\ \/ Drop(r)
         \/ reader[r].got < content /\ reader' = [reader EXCEPT ![r].got = @ + 1]
         \/ /\ reader[r].got >= content /\ op[t].state = "completed" /\ To(r, "completed")
            /\ op[t].fence = n
         \/ op[t].state = "pending" /\ op[t].fence = n /\ OwnsEpoch(t) /\ To(r, "waiting")
  BY DEF Pull, sessionVars, Fenced
<1>2. CASE Drop(r)
  BY <1>1, <1>2, DropKeeps
<1>3. CASE reader[r].got < content /\ reader' = [reader EXCEPT ![r].got = @ + 1]
  BY <1>1, <1>3, GivenKeeps
<1>4. CASE reader[r].got >= content /\ op[t].state = "completed" /\ To(r, "completed") /\ op[t].fence = n
  BY <1>1, <1>4, StageKeeps
<1>5. CASE op[t].state = "pending" /\ op[t].fence = n /\ OwnsEpoch(t) /\ To(r, "waiting")
  BY <1>1, <1>5, StageKeeps
<1> QED
  BY <1>1, <1>2, <1>3, <1>4, <1>5

-----------------------------------------------------------------------------
(* The worker *)

\* A worker that goes on, before its reply opens: no reader depends on it yet.
LEMMA AdvanceKeeps ==
  ASSUME TInv, NEW t \in Turns, NEW n \in Attempts,
         NEW from \in Stages \ {"none", "replying"}, NEW to \in Stages \ {"none"}, Stage(t, n, from, to),
         OnlyOp(t), op'[t].state = op[t].state, op'[t].fence = op[t].fence, op'[t].saved = op[t].saved,
         op[t].paid \subseteq op'[t].paid,
         NEW h \in Holds, hold' = hold \/ hold' = [hold EXCEPT ![t][n] = h],
         h = "spent" \/ to \in {"admitted", "streaming", "replying"} => n \in op'[t].paid,
         UNCHANGED <<epoch, revision, paused, upsets, text, reader>>
  PROVE  TInv'
<1>0. TurnsTypeOK /\ flight[t][n] = from /\ op[t].state = "pending" /\ op[t].fence = n
  BY DEF TInv, WriterOK, Running, Stage
<1>1. /\ flight' \in [Turns -> [Attempts -> Stages]] /\ flight'[t][n] = to
      /\ \A u \in Turns, m \in Attempts : u # t \/ m # n => flight'[u][m] = flight[u][m]
  BY <1>0, Placed DEF TurnsTypeOK, Stage
<1>2. /\ hold' \in [Turns -> [Attempts -> Holds]] /\ (hold'[t][n] = hold[t][n] \/ hold'[t][n] = h)
      /\ \A u \in Turns, m \in Attempts : u # t \/ m # n => hold'[u][m] = hold[u][m]
  <2>1. CASE hold' = hold
    BY <1>0, <2>1 DEF TurnsTypeOK
  <2>2. CASE hold' = [hold EXCEPT ![t][n] = h]
    BY <1>0, <2>2, Placed DEF TurnsTypeOK
  <2> QED
    BY <2>1, <2>2
<1>3. TurnsTypeOK'
  BY <1>0, <1>1, <1>2 DEF TurnsTypeOK, OnlyOp
<1>4. ASSUME NEW u \in Turns PROVE WriterOK(u)'
  <2>1. WriterOK(u)
    BY DEF TInv
  <2>2. CASE u # t
    <3>1. \A m \in Attempts : hold'[u][m] = hold[u][m] /\ flight'[u][m] = flight[u][m]
      BY <1>1, <1>2, <2>2
    <3> QED
      BY <2>1, <2>2, <3>1, QuietWriter DEF OnlyOp
  <2>3. CASE u = t
    <3>1. ASSUME NEW m \in Attempts
          PROVE  /\ Running(t, m)' => op'[t].state = "pending" /\ op'[t].fence = m
                 /\ flight'[t][m] \in {"admitted", "streaming", "replying"} => m \in op'[t].paid
                 /\ hold'[t][m] = "spent" => m \in op'[t].paid
      <4>1. CASE m = n
        BY <1>0, <1>1, <1>2, <2>1, <2>3, <4>1 DEF WriterOK, Running
      <4>2. CASE m # n
        BY <1>1, <1>2, <2>1, <2>3, <4>2 DEF WriterOK, Running
      <4> QED
        BY <4>1, <4>2
    <3> QED
      BY <1>0, <2>1, <2>3, <3>1 DEF WriterOK
  <2> QED
    BY <2>2, <2>3
<1>5. ASSUME NEW q \in Readers PROVE ReaderOK(q)'
  <2>1. ReaderOK(q)
    BY DEF TInv
  <2> QED
    BY <1>0, <1>1, <2>1 DEF ReaderOK, FollowsOK, OnlyOp, OwnsEpoch
<1> QED
  BY <1>3, <1>4, <1>5 DEF TInv

\* The check of the call moves only the worker on.
LEMMA CheckVoiceKeeps == ASSUME TInv, NEW t \in Turns, NEW n \in Attempts, CheckVoice(t, n) PROVE TInv'
BY AdvanceKeeps DEF CheckVoice, sessionVars, Stages, Holds, OnlyOp, TInv, TurnsTypeOK

\* A wallet hold is taken, and nothing is spent yet.
LEMMA ReserveKeeps == ASSUME TInv, NEW t \in Turns, NEW n \in Attempts, Reserve(t, n) PROVE TInv'
<1>1. OnlyOp(t) /\ hold' = [hold EXCEPT ![t][n] = "held"] /\ Stage(t, n, "reserving", "reserved")
  BY DEF Reserve, SetHold, OnlyOp, TInv, TurnsTypeOK
<1>2. UNCHANGED <<epoch, revision, paused, upsets, op, text, reader>>
  BY DEF Reserve, sessionVars
<1>3. ~("held" = "spent" \/ "reserved" \in {"admitted", "streaming", "replying"})
  OBVIOUS
<1>4. "held" \in Holds /\ "reserving" \in Stages \ {"none", "replying"} /\ "reserved" \in Stages \ {"none"}
  BY DEF Holds, Stages
<1>5. /\ op'[t].state = op[t].state /\ op'[t].fence = op[t].fence /\ op'[t].saved = op[t].saved
      /\ op[t].paid \subseteq op'[t].paid
  BY <1>2
<1> QED
  BY <1>1, <1>2, <1>3, <1>4, <1>5, AdvanceKeeps

\* An admission puts the attempt on the record before it may be spent.
LEMMA AdmittedKeeps == ASSUME TInv, NEW t \in Turns, NEW n \in Attempts, Admitted(t, n) PROVE TInv'
<1>1. /\ OnlyOp(t) /\ op'[t].state = op[t].state /\ op'[t].fence = op[t].fence /\ op'[t].saved = op[t].saved
      /\ op'[t].paid = op[t].paid \cup {n}
  BY PaidDoes DEF Admitted, TInv
<1> QED
  BY <1>1, AdvanceKeeps DEF Admitted, sessionVars, Stages, Holds

\* A dispatch spends the hold of an attempt on record.
LEMMA DispatchKeeps == ASSUME TInv, NEW t \in Turns, NEW n \in Attempts, Dispatch(t, n) PROVE TInv'
<1>1. n \in op[t].paid
  BY DEF Dispatch, Stage, TInv, WriterOK
<1> QED
  BY <1>1, AdvanceKeeps DEF Dispatch, SetHold, sessionVars, Stages, Holds, OnlyOp, TInv, TurnsTypeOK

\* A worker that opens its reply is on the record as admitted.
LEMMA OpenKeeps == ASSUME TInv, NEW t \in Turns, NEW n \in Attempts, Open(t, n) PROVE TInv'
<1>1. n \in op[t].paid
  BY DEF Open, Stage, TInv, WriterOK
<1> QED
  BY <1>1, AdvanceKeeps DEF Open, sessionVars, Stages, Holds, OnlyOp, TInv, TurnsTypeOK

\* A worker that ends with an error fails its operation and wakes its readers.
LEMMA EndKeeps ==
  ASSUME TInv, NEW t \in Turns, NEW n \in Attempts, Running(t, n), End(t, n),
         NEW h \in Holds \ {"spent"}, hold' = hold \/ hold' = [hold EXCEPT ![t][n] = h]
  PROVE  TInv'
<1>0. /\ TurnsTypeOK /\ op[t].state = "pending" /\ op[t].fence = n /\ op' = Failed(t)
      /\ reader' = Wake(t) /\ UNCHANGED <<epoch, revision, paused, upsets>>
  BY DEF TInv, WriterOK, End, sessionVars
<1>1. /\ OnlyOp(t) /\ op'[t].state = "failed" /\ op'[t].fence = n /\ op'[t].paid = op[t].paid
  BY <1>0, FailedDoes
<1>2. Woken /\ \A r \in Readers : reader[r].turn = t => reader'[r].stage # "waiting"
  BY <1>0, WakeDoes
<1>3. /\ flight' \in [Turns -> [Attempts -> Stages]] /\ flight'[t][n] = "none"
      /\ \A u \in Turns, m \in Attempts : u # t \/ m # n => flight'[u][m] = flight[u][m]
  BY <1>0, Placed DEF TurnsTypeOK, End, Stages
<1>4. /\ text' \in [Turns -> [Attempts -> Nat]]
      /\ \A u \in Turns, m \in Attempts : u # t \/ m # n => text'[u][m] = text[u][m]
  BY <1>0, Placed DEF TurnsTypeOK, End
<1>5. /\ hold' \in [Turns -> [Attempts -> Holds]]
      /\ \A u \in Turns, m \in Attempts : hold'[u][m] = "spent" => hold[u][m] = "spent"
  <2>1. CASE hold' = hold
    BY <1>0, <2>1 DEF TurnsTypeOK
  <2>2. CASE hold' = [hold EXCEPT ![t][n] = h]
    BY <1>0, <2>2, Placed DEF TurnsTypeOK
  <2> QED
    BY <2>1, <2>2
<1>6. TurnsTypeOK'
  BY <1>0, <1>1, <1>2, <1>3, <1>4, <1>5 DEF TurnsTypeOK, OnlyOp, Woken
<1>7. ASSUME NEW u \in Turns PROVE WriterOK(u)'
  <2>1. WriterOK(u)
    BY DEF TInv
  <2>2. CASE u # t
    <3>1. \A m \in Attempts : flight'[u][m] = flight[u][m]
      BY <1>3, <2>2
    <3> QED
      BY <1>1, <1>5, <2>1, <2>2, <3>1, QuietWriter DEF OnlyOp
  <2>3. CASE u = t
    <3>1. \A m \in Attempts : ~Running(t, m)'
      BY <1>0, <1>3, <2>1, <2>3 DEF WriterOK, Running
    <3>2. \A m \in Attempts : hold'[t][m] = "spent" => m \in op'[t].paid
      BY <1>1, <1>5, <2>1, <2>3 DEF WriterOK
    <3> QED
      BY <1>0, <1>1, <2>1, <2>3, <3>1, <3>2 DEF WriterOK, Running
  <2> QED
    BY <2>2, <2>3
<1>8. ASSUME NEW q \in Readers PROVE ReaderOK(q)'
  <2>1. ReaderOK(q)
    BY DEF TInv
  <2>2. CASE reader[q].turn = t
    <3>1. reader'[q].stage # "completed"
      BY <1>0, <1>2, <2>1, <2>2 DEF ReaderOK, FollowsOK, Woken
    <3> QED
      BY <1>0, <1>1, <1>2, <2>1, <2>2, <3>1 DEF ReaderOK, FollowsOK, Woken
  <2>3. CASE reader[q].turn # t
    <3>1. CASE reader[q].stage = "idle"
      BY <1>2, <2>1, <3>1 DEF ReaderOK, Woken
    <3>2. CASE reader[q].stage # "idle"
      <4>1. reader[q].turn \in Turns
        BY <2>1, <3>2 DEF ReaderOK, FollowsOK
      <4>2. op'[reader[q].turn] = op[reader[q].turn]
        BY <1>1, <2>3, <4>1 DEF OnlyOp
      <4>3. \A m \in Attempts : /\ flight'[reader[q].turn][m] = flight[reader[q].turn][m]
                                /\ text'[reader[q].turn][m] = text[reader[q].turn][m]
        BY <1>0, <1>3, <1>4, <2>3, <4>1
      <4>4. epoch' = epoch
        BY <1>0
      <4> QED
        BY <1>2, <2>1, <4>2, <4>3, <4>4, OtherTurn
    <3> QED
      BY <3>1, <3>2
  <2> QED
    BY <2>2, <2>3
<1> QED
  BY <1>6, <1>7, <1>8 DEF TInv

\* A refused worker ends its operation if that still names it, and wakes its readers.
LEMMA RefuseKeeps ==
  ASSUME TInv, NEW t \in Turns, NEW n \in Attempts, RefuseRevoked(t, n) \/ RefuseObsolete(t, n) PROVE TInv'
BY EndKeeps DEF RefuseRevoked, RefuseObsolete, SetHold, Running, Holds

\* A worker that fails ends its operation if that still names it, and wakes its readers.
LEMMA FailKeeps == ASSUME TInv, NEW t \in Turns, NEW n \in Attempts, Fail(t, n) PROVE TInv'
BY EndKeeps DEF Fail, SetHold, Holds

\* The text of a reply that is opened, and its completion.
LEMMA DeltaKeeps == ASSUME TInv, NEW t \in Turns, NEW n \in Attempts, Delta(t, n) PROVE TInv'
<1>0. /\ TurnsTypeOK /\ UNCHANGED <<epoch, revision, paused, upsets, op, flight, hold>> /\ reader' = Wake(t)
      /\ flight[t][n] = "replying" /\ text[t][n] = 0
  BY DEF Delta, sessionVars, TInv
<1>1. PICK k \in 1..MaxText : text' = [text EXCEPT ![t][n] = k]
  BY DEF Delta
<1>2. k \in Nat /\ k > 0
  BY <1>1, TurnAssumption
<1>3. /\ text' \in [Turns -> [Attempts -> Nat]] /\ text'[t][n] = k
      /\ \A u \in Turns, m \in Attempts : u # t \/ m # n => text'[u][m] = text[u][m]
  BY <1>0, <1>1, <1>2, Placed DEF TurnsTypeOK
<1>4. Woken
  BY <1>0, WakeDoes
<1>5. TurnsTypeOK'
  BY <1>0, <1>3, <1>4 DEF TurnsTypeOK, Woken
<1>6. ASSUME NEW u \in Turns PROVE WriterOK(u)'
  BY <1>0 DEF TInv, WriterOK, Running
<1>7. ASSUME NEW q \in Readers PROVE ReaderOK(q)'
  <2>1. ReaderOK(q) /\ reader[q].got \in Nat
    BY <1>0 DEF TInv, TurnsTypeOK, Reader
  <2>2. ASSUME reader[q].stage # "idle", reader[q].fence = op[reader[q].turn].fence,
               op[reader[q].turn].state = "pending"
        PROVE  reader[q].got <= text'[reader[q].turn][reader[q].fence]
    <3>1. CASE reader[q].turn = t /\ reader[q].fence = n
      BY <1>0, <1>2, <1>3, <2>1, <2>2, <3>1 DEF ReaderOK, FollowsOK
    <3>2. CASE ~(reader[q].turn = t /\ reader[q].fence = n)
      BY <1>3, <2>1, <2>2, <3>2 DEF ReaderOK, FollowsOK
    <3> QED
      BY <3>1, <3>2
  <2> QED
    BY <1>0, <1>4, <2>1, <2>2 DEF ReaderOK, FollowsOK, OwnsEpoch, Woken
<1> QED
  BY <1>5, <1>6, <1>7 DEF TInv

\* A worker completes the operation only while that names it, and wakes its readers.
LEMMA CompleteKeeps == ASSUME TInv, NEW t \in Turns, NEW n \in Attempts, Complete(t, n) PROVE TInv'
<1> DEFINE k == text[t][n]
<1>0. /\ TurnsTypeOK /\ UNCHANGED <<epoch, revision, paused, upsets, hold>> /\ reader' = Wake(t)
      /\ flight[t][n] = "replying" /\ op[t].state = "pending" /\ op[t].fence = n /\ k \in Nat
      /\ op' = [op EXCEPT ![t].state = "completed", ![t].saved = k, ![t].fresh = TRUE]
  BY DEF Complete, Stage, Pending, sessionVars, TInv, TurnsTypeOK
<1>k. k = text[t][n]
  OBVIOUS
<1> HIDE DEF k
<1>1. /\ OnlyOp(t) /\ op'[t].state = "completed" /\ op'[t].fence = n /\ op'[t].saved = k
      /\ op'[t].paid = op[t].paid
  BY <1>0, CompletedDoes
<1>2. Woken /\ \A r \in Readers : reader[r].turn = t => reader'[r].stage # "waiting"
  BY <1>0, WakeDoes
<1>3. /\ flight' \in [Turns -> [Attempts -> Stages]] /\ flight'[t][n] = "none"
      /\ \A u \in Turns, m \in Attempts : u # t \/ m # n => flight'[u][m] = flight[u][m]
  BY <1>0, Placed DEF TurnsTypeOK, Complete, Stage, Stages
<1>4. /\ text' \in [Turns -> [Attempts -> Nat]]
      /\ \A u \in Turns, m \in Attempts : u # t \/ m # n => text'[u][m] = text[u][m]
  BY <1>0, Placed DEF TurnsTypeOK, Complete
<1>5. TurnsTypeOK'
  BY <1>0, <1>1, <1>2, <1>3, <1>4 DEF TurnsTypeOK, OnlyOp, Woken
<1>6. ASSUME NEW u \in Turns PROVE WriterOK(u)'
  <2>1. WriterOK(u)
    BY DEF TInv
  <2>2. CASE u # t
    BY <1>0, <1>1, <1>3, <2>1, <2>2 DEF WriterOK, Running, OnlyOp
  <2>3. CASE u = t
    BY ZenonT(60), <1>0, <1>1, <1>3, <2>1, <2>3 DEF WriterOK, Running
  <2> QED
    BY <2>2, <2>3
<1>7. ASSUME NEW q \in Readers PROVE ReaderOK(q)'
  <2>1. ReaderOK(q)
    BY DEF TInv
  <2>2. CASE reader[q].turn = t
    <3>1. reader'[q].stage # "completed"
      BY <1>0, <1>2, <2>1, <2>2 DEF ReaderOK, FollowsOK, Woken
    <3>2. reader[q].stage # "idle" /\ reader[q].fence = n => reader[q].got <= k
      BY <1>0, <1>k, <2>1, <2>2 DEF ReaderOK, FollowsOK
    <3> QED
      <4>1. /\ reader'[q].turn = t /\ reader'[q].fence = reader[q].fence /\ reader'[q].got = reader[q].got
            /\ reader'[q].stage # "waiting" /\ reader'[q].stage # "completed"
            /\ reader'[q].stage # "idle" => reader[q].stage # "idle"
        BY <1>2, <2>2, <3>1 DEF Woken
      <4>2. reader[q].stage # "idle" => FollowsOK(q)'
        BY <1>0, <1>1, <2>1, <2>2, <3>2, <4>1 DEF ReaderOK, FollowsOK
      <4> QED
        BY <4>1, <4>2 DEF ReaderOK
  <2>3. CASE reader[q].turn # t
    <3>1. CASE reader[q].stage = "idle"
      BY <1>2, <2>1, <3>1 DEF ReaderOK, Woken
    <3>2. CASE reader[q].stage # "idle"
      <4>1. reader[q].turn \in Turns
        BY <2>1, <3>2 DEF ReaderOK, FollowsOK
      <4>2. op'[reader[q].turn] = op[reader[q].turn]
        BY <1>1, <2>3, <4>1 DEF OnlyOp
      <4>3. \A m \in Attempts : /\ flight'[reader[q].turn][m] = flight[reader[q].turn][m]
                                /\ text'[reader[q].turn][m] = text[reader[q].turn][m]
        BY <1>0, <1>3, <1>4, <2>3, <4>1
      <4>4. epoch' = epoch
        BY <1>0
      <4> QED
        BY <1>2, <2>1, <4>2, <4>3, <4>4, OtherTurn
    <3> QED
      BY <3>1, <3>2
  <2> QED
    BY <2>2, <2>3
<1> QED
  BY <1>5, <1>6, <1>7 DEF TInv

\* The owner's wallet answers a worker that is gone.
LEMMA LateReserveKeeps == ASSUME TInv, NEW t \in Turns, NEW n \in Attempts, LateReserve(t, n) PROVE TInv'
<1> DEFINE h == IF Authorized(t) THEN "orphan" ELSE "none"
<1>0. TurnsTypeOK /\ UNCHANGED <<epoch, revision, paused, upsets, op, flight, text, reader>>
  BY DEF LateReserve, sessionVars, TInv
<1>1. hold' = [hold EXCEPT ![t][n] = h] /\ h \in Holds \ {"spent"}
  BY DEF LateReserve, SetHold, Holds
<1> HIDE DEF h
<1>2. /\ hold' \in [Turns -> [Attempts -> Holds]]
      /\ \A u \in Turns, m \in Attempts : hold'[u][m] = "spent" => hold[u][m] = "spent"
  BY <1>0, <1>1, Placed DEF TurnsTypeOK
<1>3. TurnsTypeOK'
  BY <1>0, <1>2 DEF TurnsTypeOK
<1>4. \A u \in Turns : WriterOK(u)'
  BY <1>0, <1>2, QuietWriters DEF OnlyReaders
<1>5. \A q \in Readers : ReaderOK(q)'
  BY <1>0, QuietReader DEF TInv, OnlyReaders
<1> QED
  BY <1>3, <1>4, <1>5 DEF TInv

-----------------------------------------------------------------------------
(* The session and the process *)

\* The saved reply expires; what readers were given does not change.
LEMMA ReplayExpiresKeeps == ASSUME TInv, NEW t \in Turns, ReplayExpires(t) PROVE TInv'
<1>0. TurnsTypeOK /\ UNCHANGED <<epoch, revision, paused, upsets, flight, text, hold, reader>>
  BY DEF ReplayExpires, sessionVars, TInv
<1>1. /\ OnlyOp(t) /\ op'[t].state = op[t].state /\ op'[t].fence = op[t].fence /\ op'[t].saved = op[t].saved
      /\ op'[t].paid = op[t].paid
  BY <1>0, ExpiredDoes DEF ReplayExpires
<1>2. TurnsTypeOK'
  BY <1>0, <1>1 DEF TurnsTypeOK, OnlyOp
<1>3. ASSUME NEW u \in Turns PROVE WriterOK(u)'
  BY <1>0, <1>1 DEF TInv, WriterOK, Running, OnlyOp
<1>4. ASSUME NEW q \in Readers PROVE ReaderOK(q)'
  BY <1>0, <1>1 DEF TInv, ReaderOK, FollowsOK, OnlyOp, OwnsEpoch
<1> QED
  BY <1>2, <1>3, <1>4 DEF TInv

\* Startup abandons a pending operation that no worker is left to write.
LEMMA RecoverKeeps == ASSUME TInv, NEW t \in Turns, Recover(t) PROVE TInv'
BY AbandonKeeps DEF Recover, sessionVars

\* The epoch moves on and every parked reader is woken.
LEMMA TakeoverKeeps == ASSUME TInv, Takeover PROVE TInv'
<1> DEFINE e(r) == [reader[r] EXCEPT !.stage = "pull"]
<1>0. TurnsTypeOK /\ UNCHANGED <<revision, paused, op, flight, text, hold>>
  BY DEF Takeover, TInv
<1>1. \A r \in Readers : /\ e(r) \in Reader /\ e(r).stage = "pull" /\ e(r).turn = reader[r].turn
                         /\ e(r).fence = reader[r].fence /\ e(r).got = reader[r].got
  BY <1>0 DEF TurnsTypeOK, Reader
<1>2. reader' = [r \in Readers |-> IF reader[r].stage = "waiting" THEN e(r) ELSE reader[r]]
  BY DEF Takeover
<1> HIDE DEF e
<1>3. Woken /\ \A r \in Readers : reader'[r].stage # "waiting"
  BY <1>0, <1>1, <1>2 DEF Woken, TurnsTypeOK
<1>4. epoch' \in Nat /\ upsets' \in Nat
  BY <1>0 DEF Takeover, Upset, TurnsTypeOK
<1>5. TurnsTypeOK'
  BY <1>0, <1>3, <1>4 DEF TurnsTypeOK, Woken
<1>6. \A u \in Turns : WriterOK(u)'
  BY <1>0 DEF TInv, WriterOK, Running
<1>7. ASSUME NEW q \in Readers PROVE ReaderOK(q)'
  <2>1. ReaderOK(q)
    BY DEF TInv
  <2> QED
    BY <1>0, <1>3, <2>1 DEF ReaderOK, FollowsOK, Woken
<1> QED
  BY <1>5, <1>6, <1>7 DEF TInv

\* Consent or input changes: requests under way are aborted.
LEMMA RevokeKeeps == ASSUME TInv, Revoke PROVE TInv'
<1>0. TurnsTypeOK /\ UNCHANGED <<epoch, paused, op, flight, text, hold>>
  BY DEF Revoke, TInv
<1>1. NoReader \in Reader /\ NoReader.stage = "idle"
  BY TurnAssumption DEF NoReader, Reader
<1>2. /\ reader' \in [Readers -> Reader]
      /\ \A r \in Readers : reader'[r] = reader[r] \/ reader'[r].stage = "idle"
  BY <1>0, <1>1 DEF Revoke, TurnsTypeOK
<1>3. revision' \in Nat /\ upsets' \in Nat
  BY <1>0 DEF Revoke, Upset, TurnsTypeOK
<1>4. TurnsTypeOK'
  BY <1>0, <1>2, <1>3 DEF TurnsTypeOK
<1>5. \A u \in Turns : WriterOK(u)'
  BY <1>0 DEF TInv, WriterOK, Running
<1>6. ASSUME NEW q \in Readers PROVE ReaderOK(q)'
  <2>1. CASE reader'[q] = reader[q]
    BY <1>0, <2>1, QuietReader DEF TInv, OnlyReaders
  <2>2. CASE reader'[q].stage = "idle"
    BY <2>2 DEF ReaderOK
  <2> QED
    BY <1>2, <2>1, <2>2
<1> QED
  BY <1>4, <1>5, <1>6 DEF TInv

\* Pausing the conversation touches neither workers nor readers.
LEMMA PauseKeeps == ASSUME TInv, Pause \/ Resume PROVE TInv'
<1>0. TurnsTypeOK /\ UNCHANGED <<epoch, revision, op, flight, text, hold, reader>>
  BY DEF Pause, Resume, TInv
<1>1. paused' \in BOOLEAN /\ upsets' \in Nat
  <2>1. paused' = TRUE \/ paused' = FALSE
    BY DEF Pause, Resume
  <2>2. upsets' = upsets \/ upsets' = upsets + 1
    BY DEF Pause, Resume, Upset
  <2>3. upsets' \in Nat
    BY <1>0, <2>2 DEF TurnsTypeOK
  <2> QED
    BY <2>1, <2>3
<1>2. TurnsTypeOK'
  BY <1>0, <1>1 DEF TurnsTypeOK
<1>3. \A u \in Turns : WriterOK(u)'
  BY <1>0 DEF TInv, WriterOK, Running
<1>4. \A q \in Readers : ReaderOK(q)'
  BY <1>0, QuietReader DEF TInv, OnlyReaders
<1> QED
  BY <1>2, <1>3, <1>4 DEF TInv

\* The process dies: nobody runs, nobody reads.
LEMMA RestartKeeps == ASSUME TInv, Restart PROVE TInv'
<1>0. TurnsTypeOK /\ UNCHANGED <<epoch, revision, paused, op>>
  BY DEF Restart, TInv
<1>1. /\ flight' \in [Turns -> [Attempts -> Stages]]
      /\ \A t \in Turns, n \in Attempts : flight'[t][n] = "none"
  BY DEF Restart, Stages
<1>2. text' \in [Turns -> [Attempts -> Nat]]
  BY DEF Restart
<1>3. /\ hold' \in [Turns -> [Attempts -> Holds]]
      /\ \A t \in Turns, n \in Attempts : hold'[t][n] = "spent" => hold[t][n] = "spent"
  BY DEF Restart, Holds
<1>4. NoReader \in Reader /\ NoReader.stage = "idle"
  BY TurnAssumption DEF NoReader, Reader
<1>5. reader' \in [Readers -> Reader] /\ \A r \in Readers : reader'[r].stage = "idle"
  BY <1>4 DEF Restart
<1>6. upsets' \in Nat
  BY <1>0 DEF Restart, Upset, TurnsTypeOK
<1>7. TurnsTypeOK'
  BY <1>0, <1>1, <1>2, <1>3, <1>5, <1>6 DEF TurnsTypeOK
<1>8. \A u \in Turns : WriterOK(u)'
  BY <1>0, <1>1, <1>3 DEF TInv, WriterOK, Running
<1>9. \A q \in Readers : ReaderOK(q)'
  BY <1>5 DEF ReaderOK
<1> QED
  BY <1>7, <1>8, <1>9 DEF TInv

-----------------------------------------------------------------------------
(* The invariant holds, and what it gives *)

\* At the start there are no operations and no readers.
LEMMA InitTInv == Init => TInv
<1> SUFFICES ASSUME Init PROVE TInv
  OBVIOUS
<1>1. NoOperation \in Operation /\ NoOperation.state = "none" /\ NoOperation.paid = {}
  BY TurnAssumption DEF NoOperation, Operation
<1>2. NoReader \in Reader /\ NoReader.stage = "idle"
  BY TurnAssumption DEF NoReader, Reader
<1>3. TurnsTypeOK
  BY <1>1, <1>2 DEF Init, TurnsTypeOK, Stages, Holds
<1>4. \A t \in Turns : WriterOK(t)
  BY <1>1 DEF Init, WriterOK, Running
<1>5. \A r \in Readers : ReaderOK(r)
  BY <1>2 DEF Init, ReaderOK
<1> QED
  BY <1>3, <1>4, <1>5 DEF TInv

\* A stuttering step keeps the invariant.
LEMMA UnchangedKeeps == ASSUME TInv, UNCHANGED vars PROVE TInv'
<1>1. UNCHANGED <<epoch, revision, paused, upsets, op, flight, text, hold, reader>>
  BY DEF vars, sessionVars
<1>2. TurnsTypeOK'
  BY <1>1 DEF TInv, TurnsTypeOK
<1>3. \A u \in Turns : WriterOK(u)'
  BY <1>1 DEF TInv, WriterOK, Running
<1>4. \A q \in Readers : ReaderOK(q)'
  BY <1>1, QuietReader DEF TInv, OnlyReaders
<1> QED
  BY <1>2, <1>3, <1>4 DEF TInv

\* Each step keeps the invariant.
LEMMA StepTInv == TInv /\ [Next]_vars => TInv'
<1> SUFFICES ASSUME TInv, [Next]_vars PROVE TInv'
  OBVIOUS
<1>1. ASSUME NEW r \in Readers, Request(r) PROVE TInv'
  <2>1. ASSUME NEW t \in Turns, Claim(r, t) \/ Join(r, t) \/ Replay(r, t) \/ AskReplacement(r, t) PROVE TInv'
    BY <2>1, ClaimKeeps, JoinKeeps, ReplayKeeps, AskReplacementKeeps
  <2> QED
    BY <1>1, <2>1, ReplaceKeeps, ReplacedMeanwhileKeeps, LeaveKeeps, ReadyKeeps, PullKeeps DEF Request
<1>2. ASSUME NEW t \in Turns, NEW n \in Attempts, WorkerStep(t, n) PROVE TInv'
  BY <1>2, CheckVoiceKeeps, ReserveKeeps, AdmittedKeeps, RefuseKeeps, DispatchKeeps, OpenKeeps, DeltaKeeps,
     CompleteKeeps, FailKeeps DEF WorkerStep
<1>3. ASSUME NEW t \in Turns, (\E n \in Attempts : LateReserve(t, n)) \/ ReplayExpires(t) \/ Recover(t) PROVE TInv'
  BY <1>3, LateReserveKeeps, ReplayExpiresKeeps, RecoverKeeps
<1>4. CASE Takeover \/ Revoke \/ Pause \/ Resume \/ Restart
  BY <1>4, TakeoverKeeps, RevokeKeeps, PauseKeeps, RestartKeeps
<1>5. CASE UNCHANGED vars
  BY <1>5, UnchangedKeeps
<1> QED
  BY <1>1, <1>2, <1>3, <1>4, <1>5 DEF Next

\* The invariant holds in every reachable state.
LEMMA TInvAlways == Spec => []TInv
BY InitTInv, StepTInv, PTL DEF Spec

\* However readers, replacements, takeovers, failures and restarts interleave
\* (voice-turns.js start, voice-operation-storage.js claim and replace), a worker
\* that runs is the attempt its pending operation names, and what is paid was
\* recorded first.
THEOREM WorkerOwns == Spec => []WriterOwnsOperation
<1>1. TInv => WriterOwnsOperation
  BY DEF TInv, WriterOK, WriterOwnsOperation
<1> QED
  BY <1>1, TInvAlways, PTL

\* A reader is told of completion (voice-turns.js respond) only with the whole
\* saved reply of the attempt it followed.
THEOREM AnswersAgree == Spec => []ReadersAgree
<1>1. TInv => ReadersAgree
  BY DEF TInv, ReaderOK, FollowsOK, ReadersAgree
<1> QED
  BY <1>1, TInvAlways, PTL

\* A parked reader (voice-turns.js pull) has a worker that replies, in the epoch
\* of the controlling tab: a takeover and every end of a worker wake it.
THEOREM NobodyHangs == Spec => []NobodyLeftWaiting
<1>1. TInv => NobodyLeftWaiting
  BY DEF TInv, ReaderOK, FollowsOK, NobodyLeftWaiting
<1> QED
  BY <1>1, TInvAlways, PTL

-----------------------------------------------------------------------------
(* What is paid *)

\* A step after which no more is spent or admitted than before it.
PaysNothing ==
  /\ \A t \in Turns, n \in Attempts : hold'[t][n] = "spent" => hold[t][n] = "spent"
  /\ \A t \in Turns : op'[t].paid = op[t].paid

\* Only an admission records a payment and only a dispatch spends.
LEMMA RequestPaysNothing == ASSUME TInv, NEW r \in Readers, Request(r) PROVE PaysNothing
<1>1. ASSUME NEW t \in Turns, Claim(r, t) PROVE PaysNothing
  <2> DEFINE v == OrdinalOf[t] # 0 /\ ~Overtaken(t)
  <2>1. v \in BOOLEAN /\ UNCHANGED hold /\ TurnsTypeOK /\ op[t].paid = {}
    BY <1>1 DEF Claim, TInv, WriterOK
  <2>2. op' = [op EXCEPT ![t] = [NoOperation EXCEPT !.state = "pending", !.fence = 1, !.rev = revision, !.ordered = v]]
    BY <1>1 DEF Claim
  <2> HIDE DEF v
  <2>3. OnlyOp(t) /\ op'[t].paid = {}
    BY <2>1, <2>2, ClaimedDoes
  <2> QED
    BY <2>1, <2>3 DEF PaysNothing, OnlyOp
<1>2. ASSUME NEW t \in Turns, Join(r, t) \/ Replay(r, t) PROVE PaysNothing
  BY <1>2 DEF Join, Replay, PaysNothing
<1>3. ASSUME NEW t \in Turns, AskReplacement(r, t) PROVE PaysNothing
  <2>1. UNCHANGED hold /\ (UNCHANGED op \/ op' = Failed(t))
    BY <1>3 DEF AskReplacement
  <2>2. CASE op' = Failed(t)
    BY <2>1, <2>2, FailedDoes DEF TInv, PaysNothing, OnlyOp
  <2> QED
    BY <2>1, <2>2 DEF PaysNothing
<1>4. ASSUME Replace(r) PROVE PaysNothing
  <2> DEFINE t == reader[r].turn
             n == op[t].fence + 1
  <2>1. /\ UNCHANGED hold /\ n \in Attempts /\ op' = [op EXCEPT ![t].state = "pending", ![t].fence = n]
        /\ TurnsTypeOK
    BY <1>4 DEF Replace, TInv
  <2>2. t \in Turns
    BY <1>4 DEF Replace, TInv, ReaderOK, FollowsOK
  <2> HIDE DEF t, n
  <2>3. OnlyOp(t) /\ op'[t].paid = op[t].paid
    BY <2>1, <2>2, ReplacedDoes
  <2> QED
    BY <2>1, <2>3 DEF PaysNothing, OnlyOp
<1>5. CASE ReplacedMeanwhile(r) \/ Leave(r) \/ Ready(r) \/ Pull(r)
  BY <1>5 DEF ReplacedMeanwhile, Leave, Ready, Pull, PaysNothing
<1> QED
  BY <1>1, <1>2, <1>3, <1>4, <1>5 DEF Request

\* Of the steps of a worker only the admission and the dispatch touch what is paid.
LEMMA WorkerPays ==
  ASSUME TInv, NEW t \in Turns, NEW n \in Attempts, WorkerStep(t, n)
  PROVE  PaysNothing \/ Admitted(t, n) \/ Dispatch(t, n)
<1>0. TurnsTypeOK
  BY DEF TInv
<1>1. CASE CheckVoice(t, n) \/ Open(t, n) \/ Delta(t, n)
  BY <1>1 DEF CheckVoice, Open, Delta, PaysNothing
<1>2. CASE Reserve(t, n)
  <2>1. op' = op /\ hold' = [hold EXCEPT ![t][n] = "held"]
    BY <1>2 DEF Reserve, SetHold
  <2> QED
    BY <1>0, <2>1, Placed DEF TurnsTypeOK, Holds, PaysNothing
<1>3. CASE Complete(t, n)
  <2> DEFINE k == text[t][n]
  <2>1. k \in Nat /\ UNCHANGED hold /\ op' = [op EXCEPT ![t].state = "completed", ![t].saved = k, ![t].fresh = TRUE]
    BY <1>0, <1>3 DEF Complete, TurnsTypeOK
  <2> HIDE DEF k
  <2> QED
    BY <1>0, <2>1, CompletedDoes DEF PaysNothing, OnlyOp
<1>4. CASE RefuseRevoked(t, n) \/ RefuseObsolete(t, n) \/ Fail(t, n)
  <2>1. \A u \in Turns : op'[u].paid = op[u].paid
    <3>1. op' = op \/ op' = Failed(t)
      BY <1>4 DEF RefuseRevoked, RefuseObsolete, Fail, End
    <3> QED
      BY <1>0, <3>1, FailedDoes DEF OnlyOp
  <2>2. \E h \in Holds \ {"spent"} : hold' = hold \/ hold' = [hold EXCEPT ![t][n] = h]
    BY <1>4 DEF RefuseRevoked, RefuseObsolete, Fail, SetHold, Holds
  <2>3. PICK h \in Holds \ {"spent"} : hold' = hold \/ hold' = [hold EXCEPT ![t][n] = h]
    BY <2>2
  <2>4. \A u \in Turns, m \in Attempts : hold'[u][m] = "spent" => hold[u][m] = "spent"
    <3>1. CASE hold' = [hold EXCEPT ![t][n] = h]
      BY <1>0, <3>1, Placed DEF TurnsTypeOK
    <3> QED
      BY <2>3, <3>1
  <2> QED
    BY <2>1, <2>4 DEF PaysNothing
<1> QED
  BY <1>1, <1>2, <1>3, <1>4 DEF WorkerStep

\* Steps that are not a worker's pay nothing.
LEMMA OtherPaysNothing ==
  ASSUME TInv,
         \/ \E t \in Turns : (\E n \in Attempts : LateReserve(t, n)) \/ ReplayExpires(t) \/ Recover(t)
         \/ Takeover \/ Revoke \/ Pause \/ Resume \/ Restart \/ UNCHANGED vars
  PROVE  PaysNothing
<1>0. TurnsTypeOK
  BY DEF TInv
<1>1. ASSUME NEW t \in Turns, NEW n \in Attempts, LateReserve(t, n) PROVE PaysNothing
  <2>1. op' = op /\ \E h \in Holds \ {"spent"} : hold' = [hold EXCEPT ![t][n] = h]
    BY <1>1 DEF LateReserve, SetHold, Holds
  <2>2. PICK h \in Holds \ {"spent"} : hold' = [hold EXCEPT ![t][n] = h]
    BY <2>1
  <2> QED
    BY <1>0, <2>1, <2>2, Placed DEF TurnsTypeOK, PaysNothing
<1>2. ASSUME NEW t \in Turns, ReplayExpires(t) PROVE PaysNothing
  BY <1>0, <1>2, ExpiredDoes DEF ReplayExpires, PaysNothing, OnlyOp
<1>3. ASSUME NEW t \in Turns, Recover(t) PROVE PaysNothing
  BY <1>0, <1>3, FailedDoes DEF Recover, PaysNothing, OnlyOp
<1>4. CASE Takeover \/ Revoke \/ Pause \/ Resume \/ UNCHANGED vars
  BY <1>4 DEF Takeover, Revoke, Pause, Resume, vars, PaysNothing
<1>5. CASE Restart
  BY <1>5 DEF Restart, PaysNothing
<1> QED
  BY <1>1, <1>2, <1>3, <1>4, <1>5

\* Whichever await a takeover, a change of consent or a pause fell into
\* (voice-handlers.js admitReasoning, voice-turns.js worker.admitted), a call is
\* dispatched only for the tab in control and a session that still stands behind
\* the operation, and a turn overtaken before its first admission is not admitted.
THEOREM PaidWhileCurrent == Spec => PaidOnlyIfCurrent
<1> DEFINE Proper == \A t \in Turns, n \in Attempts :
              /\ hold[t][n] # "spent" /\ hold'[t][n] = "spent" => OwnsEpoch(t) /\ Current(t)
              /\ op[t].paid = {} /\ op'[t].paid # {} /\ op[t].ordered => ~Overtaken(t)
<1>1. PaysNothing => Proper
  BY DEF PaysNothing
<1>2. ASSUME TInv, NEW t \in Turns, NEW n \in Attempts, Dispatch(t, n) PROVE Proper
  <2>1. /\ op' = op /\ OwnsEpoch(t) /\ Current(t) /\ hold' = [hold EXCEPT ![t][n] = "spent"] /\ TurnsTypeOK
    BY <1>2 DEF Dispatch, SetHold, Authorized, TInv
  <2>2. \A u \in Turns, m \in Attempts : u # t \/ m # n => hold'[u][m] = hold[u][m]
    BY <2>1, Placed DEF TurnsTypeOK, Holds
  <2> QED
    BY <2>1, <2>2
<1>3. ASSUME TInv, NEW t \in Turns, NEW n \in Attempts, Admitted(t, n) PROVE Proper
  <2>1. hold' = hold /\ OnlyOp(t) /\ ~Obsolete(t, n)
    BY <1>3, PaidDoes DEF Admitted, TInv, BeforeAdmission
  <2>2. op[t].paid = {} /\ op[t].ordered => ~Overtaken(t)
    BY <2>1 DEF Obsolete
  <2> QED
    BY <2>1, <2>2 DEF OnlyOp
<1>4. TInv /\ [Next]_vars => Proper
  <2> SUFFICES ASSUME TInv, [Next]_vars PROVE Proper
    OBVIOUS
  <2> HIDE DEF Proper
  <2>1. ASSUME NEW r \in Readers, Request(r) PROVE Proper
    BY <1>1, <2>1, RequestPaysNothing
  <2>2. ASSUME NEW t \in Turns, NEW n \in Attempts, WorkerStep(t, n) PROVE Proper
    BY <1>1, <1>2, <1>3, <2>2, WorkerPays
  <2>3. CASE \/ \E t \in Turns : (\E n \in Attempts : LateReserve(t, n)) \/ ReplayExpires(t) \/ Recover(t)
             \/ Takeover \/ Revoke \/ Pause \/ Resume \/ Restart \/ UNCHANGED vars
    BY <1>1, <2>3, OtherPaysNothing
  <2> QED
    BY <2>1, <2>2, <2>3 DEF Next
<1>5. TInv /\ [Next]_vars => [Proper]_vars
  BY <1>4
<1>6. Spec => [][Proper]_vars
  BY <1>5, TInvAlways, PTL DEF Spec
<1> QED
  BY <1>6 DEF PaidOnlyIfCurrent
=============================================================================
