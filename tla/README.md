# A TLA+ model of aithema: paid work, lanes, calls, concepts and uploads

aithema is a conversational host: a visitor talks or types, model calls draft an
understanding, readiness questions and visual concepts, and every call to a provider costs
somebody money. The server is one Node.js process with one SQLite database and an
exclusive writer lock. This directory models the parts of it whose control is hard to test:
the accounting of paid requests, the lanes that decide which requests are made for a
conversation and which answers are kept, spoken turns and the calls they come through,
visual concepts, and document uploads. It plans the rest.

Paths below are relative to the repository. `budget.js`, `spend-cap.js`, `storage.js`,
`plugin-runtime.js`, `handlers.js`, `voice-turns.js`, `voice-handlers.js`,
`concept-handlers.js` and `upload-handlers.js` are under `packages/server/src/`,
`chat-completions.js`, `invocation.js`, `lanes.js`, `session.js`, `credits.js`,
`concept-lane.js`, `concept-intent.js`, `voice-lifecycle.js`,
`voice-lifecycle-controller.js` and `extractor-process.js` under `packages/core/src/`.

## 1. Inventory

| Component | State it keeps | Operations | What makes it correct |
|---|---|---|---|
| Session budget ledger (`budget.js`, `composed/accounting.js`) | `budget_attempts`, `budget_corrections`, in-memory claims | admit, claim, consume, mark the dispatch, settle, observe, reconcile, extend voice, recover | caps hold over every interleaving; an attempt whose claim was not consumed costs nothing; a call that left is never freed; charges are explained by the corrections; a sealed session does not change |
| Provider account spend cap (`spend-cap.js`, `spend-cap-settings.js`) | `spend_reservations`, `retired_spend`, the operator's cap | reserve, dispatch, record, settle, uncertain, recover, save or reset the cap, purge | committed money stays under the cap; a breach is latched for ever; a charge is final; only a settlement releases a hold |
| Paid invocation (`chat-completions.js`, `invocation.js`, OpenRouter plugin) | an invocation in memory, an abort listener, a late response | begin, reserve, dispatch, observe, settle both books, abort | the two books agree with what the provider charged |
| Receipt job (`plugin-runtime.js` `reconcileCosts`) | a rotating offset, `reconciled` and `retryAttempts` per row | pick, ask the provider, post, acknowledge | every charge known to the account reaches its session; an estimate never replaces a receipt |
| Retirement (`storage.js`) | `retirement_pending`, retired totals | seal, test readiness, purge | nothing that was promised is lost with the rows |
| Runtime admission (`plugin-runtime.js` `admit`, `consent.js`) | promises in flight | evaluate, ask consent, recheck, consume | no dispatch on consent, purpose or a plugin that changed while it was awaited |
| Credits and owner wallets (`credits.js`) | holds in the host's wallet, attempts in flight | admit, release | a wallet hold has a budget row or is released |
| Session lanes (`lanes.js`, `understanding.js`, `readiness.js`) | a map of flights, one per session and lane | run, join, supersede, cancel, show, publish | one wanted flight per lane; a call is made with the present input; nothing stale is shown or kept; nothing is paid for twice |
| Session events and storage (`session.js`, `storage.js`) | the event log, its revisions, lane failures | append, invalidate, fail a lane | revisions grow and tell apart what a lane must not mix |
| Conversation limits (`conversation-limits.js`) | ready, active, ending, ended; timers | start, tick, end | an ended conversation pays for nothing more, however late its timer |
| Visual concepts (`concept-lane.js`, `concept-intent.js`, `concept-handlers.js`, `ui-render-limits.js`) | durable intent, one flight, artifacts with dependencies, render claims | record, plan, request, render, store, invalidate, vote | no render past the limits or of what changed; no artifact outlives what it rests on; a pending job has a flight |
| Voice turns and operations (`voice-turns.js`, `voice-operation-storage.js`, `composed/authority.js`) | workers with waiting readers, durable operations, a budget row per attempt | open, join, replace, replay, retire, abandon | one writer per operation; each reader the same reply; no reader left waiting; nothing paid for a call that is over |
| Voice call coordination (`voice-handlers.js`, `voice-lifecycle*.js`, `voice-cap.js`, ElevenLabs client) | on the server the call, its segments, minutes; in the tab its own lifecycle and a recovery flight | start, check, recover, pause, resume, close, take over, reconcile | one live segment, of the tab that controls the call; minutes reserved while a provider may run, and returned; recovery ends |
| Composed voice relay (`composed/`) | audio relay and parts of a call | transcribe, speak | its costs stay within the call's row |
| Request handlers and startup (`handlers.js`, `http.js`, `export.js`) | a job per lane, recorded failures | route, schedule, invalidate, resume | no input is forgotten; a run is always awaited; a withdrawal is acknowledged when its runs are gone; recovery precedes service |
| Uploads and extraction (`upload-handlers.js`, `storage.js`, `extractor-process.js`) | request counters, the extraction slot and its queue, jobs, child processes, upload records | reserve, read, post, extract, withdraw, revoke, resume | bounded memory; a withdrawal acknowledged when nothing works on the file; every file ends, the slot is never lost |
| Operator sessions (`operator-*.js`) | sessions and state | sign in, expire | revocation is immediate |
| Ports, prompts, presentation, provider wire formats, user interface, demo, tooling | | | data and presentation; no shared protocol state of their own |

How they interact. A lane or a voice turn asks the runtime for an admission; the runtime
evaluates the plugin, asks consent, takes a wallet hold and a budget row, and hands out an
invocation. The invocation burns the claim, reserves on the provider account, records the
dispatch in both books, calls the provider and settles both books. The abort signal is a
callback that settles while the call still runs. A handler changes the session, tells the
lanes (`supersede` or `cancel`) and schedules in the same turn or after an await; a job runs
a lane and looks afterwards whether the work is still the same. At startup `handlers.js` (922-934) runs
`budget.recover`, then the account's recovery, then the receipt job.

What is hard here: two books updated by separate transactions with awaits and crashes
between them; responses after an abort; evidence in any order from four sources (response,
startup, receipt job, erasure fence); counters read before the row is inserted; state read
before an await; a session that changes in each of the four waits of a run (availability,
wallet, consent, provider); a wake-up that meets a job about to end; two processes (server and
tab) with a copy of one call each, and requests between them that are lost or outlived; a
slot handed to a waiter that is aborted at that moment. `PROJECT.json` lists each hazard at
its line with the property that covers it.

## 2. Modules

| Module | Models | Kind |
|---|---|---|
| `BudgetLedger` | `budget.js`, the seal of `storage.js` | specification, invariants, action properties |
| `BudgetLedgerProofs` | | theorems about `BudgetLedger` and `CallAccounting`, the refinement of `PaidRequests` included |
| `SpendCap` | `spend-cap.js`, the cap of `spend-cap-settings.js`, the purge of `storage.js` | specification, invariants, action properties |
| `SpendCapProofs` | | theorems about `SpendCap` |
| `SumFacts` | | lemmas about the sums of the budget queries |
| `PaidRequests` | what both books promise together | abstract specification |
| `CallAccounting` | `chat-completions.js`, `invocation.js`, `reconcileCosts`, startup; composes the two books | specification, invariants, liveness, refinement of `PaidRequests` |
| `SessionLanes` | `lanes.js`, the gate of `plugin-runtime.js`, the revisions of `session.js` | specification, invariants, action properties |
| `SessionLanesProofs` | | theorems about `SessionLanes` and `LaneJobs` |
| `LaneJobs` | the scheduler of `handlers.js`; extends `SessionLanes` | specification, invariants, action property, liveness |
| `VoiceTurns` | `voice-turns.js`, `voice-operation-storage.js`, `composed/authority.js`, `voice-handlers.js` `execute` | specification, invariants, action property, liveness |
| `VoiceTurnsProofs` | | theorems about `VoiceTurns` |
| `VoiceLifecycle` | the reducer of `voice-lifecycle.js` | operators, used by the next two |
| `VoiceCalls` | the server's side of a call: `voice-handlers.js`, `voice-cap.js`, `admitVoice` of `plugin-runtime.js` | actions, invariants |
| `VoiceRecovery` | the tab's side: `voice-lifecycle-controller.js`, the ElevenLabs client; composes both over lossy requests | specification, invariant, liveness |
| `VoiceCallsProofs` | | theorems about `VoiceCalls` under `VoiceRecovery` |
| `Concepts` | `concept-lane.js`, `concept-intent.js`, `concept-handlers.js`, `ui-render-limits.js`, `conversation-limits.js`, `credits.js`, the gate and the artifacts | specification, invariants, action property |
| `ConceptsProofs` | | theorems about `Concepts` |
| `Uploads` | `upload-handlers.js`, the upload states of `storage.js`, `extractUpload` of `plugin-runtime.js`, `extractor-process.js` | specification, invariants, liveness |
| `UploadsProofs` | | theorems about `Uploads` |
| `MC...` | | the instances TLC checks |

### BudgetLedger

One row per attempt in the variables `row` (admission), `bill` (settlement), `observed`
(component usage), `cost` (`provider_cost_json`), `fix` (the latest reconciliation) and
`audit` (`budget_corrections`). `token` is the in-memory claim, lost in a crash. `reach` is
a history variable: how far the attempt ever got (`unsent`, claim `burned`, provider
`called`); no guard of the code reads it. `sealed` is the retirement fence and `retained`
the charge that `#receiptTransaction` hands to the account behind it.

Every public operation of the class is one SQLite transaction, so it is one action with the
code's early returns as guards. `observeCost` is the exception: it records the charge in one
transaction and posts it in a second, so its action allows a crash between the two.
`Recover` is the recovery transaction of startup, over all open rows at once. `CallProvider`
is the caller's request, `Crash` the death of the process.

Left out: terminal replay (it changes nothing), the token floor of `observeCost`, rows of
older versions without a cost record, diagnostic counters, the display of voice estimates.

### SpendCap

`hold` is `spend_reservations` (state, amount held, charge settled, charge seen), `gone` the
folded totals of purged sessions, `stored` the operator's cap, `live` whether the process
serves. `Spent`, `Committed` and `Breached` are the sums of `totals()` and `snapshot()`. A
zero ceiling holds one unit, as the `MAX` in `reserve` does. `Purge` folds a session's rows
into `retired_spend` at any time: the code waits for readiness up to a deadline and
then purges anyway, so the model allows at least what the code does. Left out: revision and
actor of the settings audit, and the migration of old columns.

### CallAccounting and PaidRequests

`call[a].at` is the program counter of an invocation. The code between two awaits cannot be
interrupted by other JavaScript, but every transaction in it commits by itself, so each is
an action of its own: a stage in `Turn` must go on (the guard `Idle` keeps other turns out),
and only `Die` can cut it short. `begun`, `waiting` and `late` are the waits, where an
abort, another call, the receipt job or erasure interleaves. The abort listener ends the
invocation first; a response that still arrives (`HearCost` at `waiting` or `late`) reaches
the hold and the row but does not report again. `job` is one pass of `reconcileCosts` over a
row it read before it asked the provider. `chase` is `reconciled` and `retryAttempts`.

`PaidRequests` has neither book: a request is held for, sent at most once, and each book
learns what was charged once and for all. `Promised` is the refinement mapping of both books
to it; it refuses a request sent after its accounting was closed and an estimate that passes
for a receipt.

Left out: stream deltas, payload validation, token floors, the retry for an unsupported
response format (it is a new admission), purges (in `SpendCap`). Conflicting charges throw in
the code and are guards here. An estimate is made only when the call is over: the response
body outlives its abort by at most a second, while the estimate waits for
`costReconciliationWindowMs`, by default five minutes.

### SessionLanes

`session` keeps what `inputRevision` compares: `input` counts turns and uploads, `gate`
stands for the consent and withdrawal revisions (each only grows, and every event that
raises one calls `cancel`), `ident` counts changes of identity. `ReplyRev` is
`replyInputRevision`, which leaves identity out. `active` counts the inputs that are not
withdrawn, `sel` the processing choice, `answered` the revision of the latest reply, `und`
the revision of the assessment and whether it is a draft. `barred` is consent withdrawn or
the session erased.

A flight is a call of `run`. `at` is where it waits: `admitting` (availability, wallet,
budget), `consenting` (the consent port inside `consume`), `called` (the provider), `ended`
(its promise has yet to settle). `seen` is its snapshot, `asked` the snapshot its admission
compares, `signal` its abort controller and deadline. `slot` is the map `#flights`. Between
two waits a flight runs without interruption, so a step is what happens from one wait to the
next, with the code's checks in their order. `Refuse` is every way a call may fail; in
particular the wait for the owner's wallet is not cut short by an abort (`lanes.js:111`
awaits `admit` without `untilCancelled`), so an aborted flight may stay in `admitting`.
Flight names are reused once a flight is over: they carry no meaning.

Nothing is said of who calls `run`: `Launch` is possible at any time, which allows more
than the server does. `ChangeAddress` tells the lanes nothing, as in the code, and
`SetPaused` neither.

Left out: voice calls, the purpose policy, question focus, releasing the visitor's credits
of a reply that was not delivered, text, and the change of locale, which is refused once a
turn or an upload exists.

### LaneJobs

Adds `jobs` (the map of `handlers.js`), `failures` (`lane_failures`), `todo` (handlers that
have changed the session and schedule only after an await) and `booting` (the recovery loop
after a restart). `due` is a job whose next microtask runs the lane, `running` one that
awaits it. `Collect` is the moment the run's promise settles: it records or clears the
failure and ends the job or begins again. `Restart` loses the flights, the jobs and the
pending acknowledgements, and keeps the session and the failures.

`wake` is `job.reschedule`. A request that schedules does nothing for a lane that has a
job: that the job itself will notice is what `EveryInputAnswered` checks.

Left out: the same as in `SessionLanes`, voice calls and concepts, the order that `retry` asks for (the model starts
due jobs in any order), shutdown, and a crash between the commit of a change of settings
and the clearing of the failures in the same synchronous turn.

### VoiceTurns

`op` is `voice_turn_operations`: state, `fence` (the attempt that may write), the revision it
was asked under, the attempts that were paid. `flight` is the worker of each attempt and the
await it stands at; `hold` its reservation; `reader` the HTTP requests that follow a reply.
A turn's key contains its provider session, which lives in one epoch, so `EpochOf` is a
constant. Between two awaits a worker runs without interruption. The wallet of the owner is
the exception to every deadline: `LateReserve` is its answer to a worker that gave up, and
leaves an `orphan`. `Restart` forgets workers and readers; `Recover` is the startup pass over
pending operations.

Left out: the identity frame and the 16k pieces of a reply, the limit of 1000 operations,
the retries of the purpose safeguard, the retry of `admitReasoning` after a change of
identity, erased content.

### VoiceLifecycle, VoiceCalls, VoiceRecovery

`VoiceLifecycle` has one operator for each event of `reduceVoiceLifecycle`; server and tab
each apply it to their own copy, as the code does. In `VoiceCalls` a segment is one connection to the
provider: `seg[s].stage` is where the request that opens it waits, `slot` and `entry` are the
maps `sessions` and `calls`, `checks` the recover requests that wait for the provider's
eligibility check, `resume` the resume command in progress, `hold` its voice minutes, `record` its row in
`voice_calls`, `provider` what really runs. `VoiceRecovery` adds the tab: its lifecycle, its
last receipt and its recovery flight, and lets every request be lost on its way there or
back or outlive the tab's deadline. Another tab, new consent, text pauses, sleep and crashes
come between any two awaits.

One assumption ties the clocks: the tab's lease lapses no later than the server's (the guard of
`Expire`). The server hands the tab the deadline its own timer uses (`voiceLifetime`), the tab
arms a timer for it while it takes itself to be connected (`schedule`), and a receipt that
arrives after its deadline makes that timer fire at once. So what the model excludes is a tab
whose clock runs behind the server's, and the message that is under way when both lapse. An
earlier version assumed instead that a lease outlasts every check asked before it began; the run
passed, but the attempt to prove `TabFollows` showed that under this assumption it does not hold
beyond the run's bounds. The guard now says what the code's deadlines give, and `TabFollows` is
proved from it for any bounds. The closing of a segment whose
media failed may be lost, like every other command. Left out:
a call's graceful stop with its last words, the cap of the day, several calls of one session,
composed calls (whose client differs), tab ids (the epoch tells them apart), media.

### Concepts

`intent` is the durable `conceptIntent`, changed only through the reducer's operators
(`Synced`, `ConsentRevised`, `SourceRemoved`, `Requested`, ...). `flight` is the lane's single
flight with the await it stands at. `concepts` are the stored artifacts with their
dependencies, `seen` how often each reference had been removed when the render was planned.
`row` and `hold` are the budget row and the owner's wallet, `claims` the renders counted by
day, `others` those of other sessions, `hour` the conversation's hour and whether its timer is
late. A handler's storage transaction, the warning to the lane and the scheduling are one
action, as they run without an await. The answers of availability, wallet, consent port and
provider are arbitrary. `Abort` is every other cause of an abort (deadline, choice of
visuals, coverage asked again).

Left out: HTML renders (which carry no references), sessions without an owner, a binding without a consent
scope, receipts and replays of client requests, the idle trigger (nothing on the server
calls it), locale and identity in the revision, the intent's history bound (`duplicate`
cannot be reached within it), the storage size limit, purge and erasure of the session.

### Uploads

`call` is a request and whether its body is being read or the host is asked; `pending`,
`perSession` and `inDeployment` are the module's counters; `holding` and `recovered` say whose
end gives a reservation back (`Promise.allSettled` of a batch, `finally` of a resumed file).
`job` is the extraction of a file and the await it stands at, `extracting` and `waiters` the
slot with its first-in first-out queue, `parsers` the child processes alive, `ack` the
withdrawals and revocations that wait for the jobs they aborted. `stale` marks the requests whose conversation
has a new input revision since they arrived. An aborted waiter leaves the queue at once and its
job ends a microtask later (`left`); a granted job that was aborted passes the slot on.

A request may be refused at any time and the host may answer anything, except that what the
code compares itself (`current()` in `extractUpload`) is compared. Left out: multipart,
sniffing and parsing with their size limits, the zero-cost budget row of an extraction,
a pause for its purpose, graceful shutdown (a restart covers its durable effect), a second
withdrawal of the same file, a storage write that fails: after that a file
stays pending until a restart.

## 3. Runs

| Run | Question | Instance | Result |
|---|---|---|---|
| `budget` | do caps, corrections, receipts, recovery and the seal hold over every interleaving of a priced and an unpriced lane, and of a voice call with a component: extension, closing exposure, observed usage? | either two reasoning attempts, maxima 1 or 2 beside 2, or a call and its speech component with exposure above the maximum; caps 3 and 1, charges 1 and 3 (below and above a maximum) | holds |
| `budget_overrun` | is every charge above its maximum flagged? (README.md:1138-1139) | as `budget` | violated, see section 6 |
| `spend_cap` | does the cap hold, and does a breach stay, across purges, restarts and cap changes? | three attempts in two sessions, ceilings 0 and 2, charges 1 and 3, a configured cap of 4 and a saved one of 3 | holds |
| `calls` | do both books end with what the provider charged? | two requests of one session, ceiling 2, charges 2 and 1, cap 3, one crash, two lookups | holds |
| `session_lanes` | whatever happens in the waits of a run: is a lane single, its call made with the present input, its output fresh, and paid once? | two flights, two choices, a draft binding of its own, an anonymous threshold of 2, three session events | holds |
| `lane_jobs` | with the server's scheduler: is each input answered, each run awaited, each withdrawal acknowledged only after the runs before it? | as above without a draft binding, one retry, reconnection or restart | holds |
| `lane_settings` | does work that a changed choice superseded rerun instead of failing? (README.md:1237-1238) | as `lane_jobs`, without retries and restarts | violated, see section 6 |
| `voice_turns` | whatever interleaves with a spoken turn: one writer, the same reply for each reader, nobody left waiting, nothing paid for a call that is over, every operation settled? | two turns of a call, the second overtaking the first, two attempts, a streaming reader of the first turn and a plain one of both, one takeover, revocation, pause or restart | holds |
| `voice_turn_hold` | does an overtaken turn cost nothing? (README.md:931-933) | as `voice_turns` | violated, see section 6 |
| `voice_calls` | server and tab together: one live segment, which the tab that thinks it is connected has; minutes reserved while a provider may run, and returned; recovery ends? | three segments, minutes for two, two recovery attempts per outage, two upsets besides the first drop, no retry after a sleep once a second segment was used | holds |
| `concepts` | does what the person takes back, and what ends or runs out, reach a render in every await of its admission, payment and publication? | two turns, one reference, three renders, two renders per session and per day, five events | holds |
| `uploads` | is memory bounded, a withdrawal acknowledged only when nothing works on the file, and does every upload end? | a batch of two files and its retry, a file of another conversation, two reservations, one event in the batch's conversation, one restart, deadlines at any time | holds |

Why the bounds are enough. Two attempts make every race of the cap (a third adds no new
pair); the quotes and charges take each side of each comparison: below, at and above the
maximum, the ceiling and the cap, which admits one large request or two small ones but not
two large ones. Three attempts in `spend_cap` put two in the session that is purged and one
in the session that remains. One crash in `calls` can strike between any two transactions,
recovery itself included in `budget`, where crashes are unbounded; a second crash finds
rows that recovery has already treated as settled. `COST_ESTIMATE_ATTEMPTS` is 12 in the
code; two lookups have a first and a last one.

In `session_lanes` two flights give a lane an aborted run beside its successor, or both
lanes one each; a third run beside them could only repeat a pair. Three events are a turn,
a change and a change back, or a turn, a withdrawal and a consent; the threshold of 2 makes
an assessment wait, be due, and wait again after a withdrawal. `lane_jobs` never needs more
than one flight per lane (`EveryRunAwaited`). It takes no separate draft, whose two passes
are `session_lanes`' matter, and fixes the first choice, since the two differ in name only;
symmetry is not used there because it is unsound for liveness.

`budget` keeps reasoning and voice attempts apart (`Apart` of its MC module): rows of
different kinds meet only in the sums of the caps, which two rows of one kind already make.
In `voice_turns` the second turn is what overtakes the first, the second attempt what replaces a
failed one; a second upset finds an operation that the first one already ended or abandoned. In
`voice_calls` three segments are one that is lost, one that replaces it and one that another
tab or a later recovery opens; two minutes' worth lets two segments be reserved and a third
refused; two attempts have a failure that is retried and one that exhausts them. In `concepts`
five events are enough for two turns, a render from them, and a withdrawal with a consent, a
removal or the end of the hour while a second render flies; two renders make each limit reached
and refused, and the third job plans what the limit then refuses. In `uploads` two
reservations are both taken by a batch and the other conversation's file, which the retry and a restart's
backlog then find full; three jobs are one that works and two that wait.

The MC modules leave out what only repeats a case: in `budget` the analysis always takes the
larger maximum, beside which the smaller draft fits and the larger does not; in `voice_turns` the
streaming reader does not ask for the second turn, which has no replacement to follow; in
`uploads` the event is the batch's, since a batch of one is a part of a batch of two; in
`voice_calls` a person does not take a call up again after a sleep late in it, as sleep adds
holds that mean the same to a second and a third segment. Only actions of the environment, which
have no fairness, are left out, so the liveness properties keep their meaning.

With two workers the longest, `voice_turns` (490 thousand states), `budget` (500) and `lane_jobs`
(620), take about two minutes each, `voice_calls` (225) and `uploads` (360) about one and a half,
`concepts` (880) and the others less than one.

`CHECK_DEADLOCK FALSE` stands in the runs whose attempts run out: when each attempt is
settled and posted, nothing is left to do. Attempt ids are random UUIDs, so an attempt is
never admitted twice. In `LaneJobs` the events run out: then every lane is at rest. In the voice, concept and
upload runs the turns, segments, renders, calls and events run out in the same way.

Each run's properties were also checked for sensitivity: for each, a plausible fault in the
code (a definition marked "Seeded fault") makes TLC find a violation. `PROJECT.json` lists
them.

### Fairness

`CallAccounting`, `LaneJobs`, `VoiceTurns`, `VoiceRecovery` and `Uploads` have liveness
properties.

In `CallAccounting`: weak fairness of an invocation's own steps:
synchronous code runs on, and each wait has a deadline (`operationScope` arms one for every
call), so `GiveUp` and `NoAnswer` happen when the provider is silent. Weak fairness of
recovery: a host that died is started again and startup runs to its end. Weak fairness of a
pass of the receipt job, and strong fairness of picking a row, since `costRetryOffset`
rotates through the pending rows so that none is passed over for ever. Nothing is assumed of
the provider: `HearName`, `HearCost` and `Answer` have no fairness, and neither have a
visitor's actions, aborts, erasure or crashes.

`HoldsClose`: no hold stays open. `ReceiptReachesSession`: a charge settled on the account
ends in the session's row unless its billing is sealed.

In `LaneJobs`: weak fairness of a run (`FlightWork`), since each of its waits ends, the
provider's and the consent port's by the deadline of the scope, the wallet's by its own
answer; of a job (`JobStep`), since microtasks run; of `Acknowledge`, since the runs it
waits for end; of `Recover`, since startup runs to its end. Nothing is assumed of requests,
of success, or of a resume: a run may fail every time, in which case a failure is on
record.

`EveryInputAnswered`: for each lane, again and again, nothing is owed: there is an answer to
the present turns, or a failure on record for them, or a reason not to answer (paused,
consent withdrawn, below the anonymous threshold).

In `VoiceTurns`: weak fairness of the worker that may write a pending operation, since each
of its awaits has a deadline, and of `Recover`, since startup abandons what it finds. Nothing
is assumed of readers, of replacements or of the owner's wallet. `Settles`: no operation stays
pending.

In `VoiceRecovery`: weak fairness of the tab's flight (its requests have deadlines, and its
waits are timers), of the server's answers, its start and its check (deadlines again), and of `CloseStep`:
closing is retried by a timer and at startup until the provider confirms. One formula for all
segments suffices, as a segment is closed once. Nothing is assumed of
the network: requests may be lost each time. `RecoveryEnds`: a recovery ends with a segment, a
call that waits for its person, or an ended call. `MinutesReturn`: minutes kept for a saved
segment are settled.

In `Uploads`: weak fairness of some job's step (microtasks run, the host's answer has the
batch's deadline, a child is killed at its own), of the release of a reservation, and of a
request's end. `UploadsEnd`: once people stop, no file is pending and no reservation is left.

`Concepts` has no liveness property: the wait for the owner's wallet is not bounded by the
lane's deadline, so no fairness would be justified. `PendingFlies` says instead that a pending
job always has the flight that can end it.

## 4. Proofs

All theorems hold for every value of the constants under the modules' assumptions: any finite
set of attempts and any sessions, any caps, quotes and charges; any number of runs, turns,
renders, files, segments, crashes and upsets. The assumptions that a set is finite (`Attempts` of
both books, `Files` and `Calls` of `Uploads`) are there for sums and counts: a database holds
finitely many rows. Type correctness is proved here and is not among the properties of the
runs; so are `FenceHolds`, `ChargesFinal` and `RecoveryKeeps`, whose properties follow from few
actions. The seven proof modules and `SumFacts` cover the invariants and action properties of
all nine passing runs.

Each safety theorem goes the same way: an invariant, stated at the top of its module, holds
initially and is kept by each action (one lemma for an action or a group of them), and implies
the property. On the instance
of its component's run TLC finds each of these invariants to hold (these checks are not among
the runs, whose properties are the ones the invariants imply).

`SumFacts`
- The budget queries add up rows (`SUM` in SQL), which the model writes as the library's
  `SumFunctionOnSet`. What a fold computes is a matter of induction over the set, and the
  library's induction theorems cannot be used here. The lemmas take least elements instead: a
  family of subsets of a finite set has a minimal member (`MinimalSubset`, from the
  well-foundedness of the strict subset order), so a smallest set for which a claim fails leads to
  a contradiction. `FoldExists` builds the fold the library's `CHOOSE` picks.
- `SumStep`, `SumSame`, `SumMonotone`, `SumChange` and their like are what the caps need: what one
  row adds, that equal rows have equal sums, that smaller ones have smaller sums.

`BudgetLedgerProofs`, the ledger
- `TypeCorrect`: every operation keeps the rows well typed. The charges corrected by
  `Correction` stay natural because they are copied, not computed.
- `BurnedClaimsOnly`: an attempt whose claim was never consumed costs nothing. The
  invariant is strengthened with what links the in-memory claim, the state of the row and
  `reach` (`claimed` rows were burned only if dispatched, posted evidence exists only for
  burned ones), which recovery's choice of `Liable` needs.
- `LiabilitySurvives`: recovery charges a call that left the recorded receipt or at least its
  maximum. It needs that a called attempt has its dispatch on record, which is why
  `markCostDispatch` precedes the request.
- `FenceHolds`: no operation rewrites the billing of a sealed session, by cases over all
  operations.
- `AuditTrail`, `ObservedUsageCharged`, `UnconfirmedInFull`, `ReceiptsFinal` rest on `Life`, the
  life of one attempt: which states, outcomes and corrections go together, and that a component
  has no maximum of its own. `Charge` adds how a settled charge is composed, `Final` what a late
  terminal or receipt finds.
- `CapsHold`: each admission compares the sums over all rows with the caps, so the invariant is
  the cap itself together with `Life`; every other action is shown to add no more to a sum than
  it takes away.

`BudgetLedgerProofs`, both books
- The invariant `CallInv` has five parts. `Books`: a charge in either book that counts as known
  is the true one, and a settled hold has its row. `CallsOK` and `CallRows`: where an
  invocation stands says what both books may know of it (before the request leaves, neither has
  a charge; an invocation that heard a cost heard the true one). `Quiet`: before startup is done
  nothing is under way. `JobTrue`: the receipt job carries the true charge of a settled row.
- `HoldsAreTruthful` and `BillsAreTruthful` follow from `Books`.
- `SpendStaysCapped`: the account's cap bounds its commitments (`Capped`) by the sums of
  `SumFacts`; teaching a book a charge within the ceiling never commits more.
- `BooksKeepPromise`: under `CallInv` every step of `CallAccounting` is a step of `PaidRequests`
  or leaves `StageMap`, `AccountMap` and `SessionMap` alone; both commit the same
  (`PromisedCommitted`).

`SpendCapProofs`
- `RowsWellFormed`: the type invariant with the consistency of a row: confirmed exactly when
  it has a charge, at least one unit held.
- `ChargesFinal`, `RecoveryKeeps`, `BreachIsFinal`: a settled charge changes only with the
  purge of its session; startup never frees a request that may have left; a charge above its
  ceiling closes the account for ever, since a purge folds the overrun with the rows.
- `SavedCapIsKept`: the three totals of the query are one sum of a load per row, to which a purge
  adds nothing, since it moves the load of a session's rows to `gone`.

`SessionLanesProofs` (under `LanesAssumption`: any number of runs and choices, any sequence
of events, any callers)
- The invariant `LanesInv` is the types and three facts. `WantedOwns`: a run that is alive
  and not aborted is the one in its lane's slot. `AskedForSeen`: the revision an admission
  compares is the one the run read its prompt from, for a reply up to identity. `GateOpen`:
  a working run's consent and withdrawal revision is not ahead of the session's, and while
  they agree the session is not barred.
- `LanesTypeCorrect`: the types; in particular `active` stays natural.
- `OneWantedRun`: two wanted runs of a lane would both own its slot. `SingleFlight` is not
  inductive without `WantedOwns`, because a run's end looks at the slot and not at the
  other runs.
- `CallsOwnInput`: at dispatch the gate compares `asked`, and `AskedForSeen` carries that
  over to what the prompt was made from.
- `OutputOwnsInput`: `Current` compares the snapshot up to identity, and `GateOpen` adds that
  consent was not withdrawn since.
- `PaidForOnce`: `RunInv` adds `AskedBefore` (a run compares no revision the session has yet to
  reach) and `NotAnswered` (a run that is not stopped, asked with the present revision, works on
  input its lane has no result for). The only run whose step gives a lane its result is the
  one that owns the slot, and the draft pass of an assessment is no result.
- `RunsAreAwaited`, `AcknowledgedWhenSettled`: `JobsInv` ties jobs, runs and slots to each other
  in both directions (`RunsAwaited`), and says which runs an acknowledgement still waits for
  (`Waited`): those that began under an earlier gate.
- `ScheduledLanesKeep`: a step of `LaneJobs` is a step of the lanes, or a restart; so the four
  properties of any callers hold with the server's own scheduler and across restarts.

`ConceptsProofs` (under `ConceptsAssumption`: any number of turns and renders, any references
and limits)
- The invariant is the types with `PendingFlown`: the pending job of the intent is the job of
  the flight, and its revision begins with the input the flight took off with. Each action is
  shown to keep the types and to let the flight go on, end or start (`StepFacts`); lemmas about
  the reducer say what an intent may lose meanwhile (`Later`).
- `ConceptsTypeCorrect`: the invariant itself. `PendingAlwaysFlies` follows from it.
- `PaidOnlyCurrent`: `Dispatch` compares the flight's input and choice with the session's, and
  `PendingFlown` carries that over to the pending job.
- `LimitsHold`: `WithinLimits` is not inductive when the day changes without `ClaimsDated`
  (no claim is dated after today), which makes a new day's count start at zero.
- `WalletIsReturned`: a hold is taken only in a flight that goes on with a row or with the
  return.
- `ShownIsBacked`: `FlightBacked` says that the job in flight rests on what still stands, or that
  the intent can tell (a version or the invalidation count grew); `Named` that a concept is
  younger than those it rests on; `Backed` that it rests on all they rest on, so that one
  withdrawal erases the whole line. `ArtifactsBacked` alone is not inductive: a concept planned
  before a removal is published after it.

`VoiceTurnsProofs` (any turns, attempts, readers and epochs)
- `TInv`: the types, a worker that runs is the attempt its pending operation names (`WriterOK`),
  and a reader has been given no more than the text of the attempt it follows (`ReaderOK`).
- `WorkerOwns`, `AnswersAgree`, `NobodyHangs` follow from it; `PaidWhileCurrent` from the guards
  of the steps that pay, with the epoch that `WriterOK` ties to the worker.

`VoiceCallsProofs` (any segments, minutes, recovery attempts and upsets)
- `CInv`: what runs has the session's slot and takes the call's commands (`Controlled`), and what
  a segment holds of the minutes goes by how far its start has come (`HeldFor`).
  `OneSegmentLives` and `MinutesReserved` follow from it.
- `TabStaysOnSegment`: `TabFollows` needs `TabInv`. `Followed` is its heart: behind a tab that is
  on a segment, the call is over, or that segment is live with no request waiting to replace it,
  or nobody has the authority to start anything (`Sure`). `Asked` and `Replaced` say that a
  request to replace the live segment is of the tab's own recovery. Most actions
  of the server are shown to be `Gentle`: they bring back no segment, no authority and no ended
  call, and spare the segment the tab is on. The others (a replacement, a first call, another
  tab) go through case by case.

`UploadsProofs` (any files, batches and conversations)
- The invariant: one job has the slot and its bytes (`OneLoaded`), the counters count what is
  reserved (`Counted`), a batch is posted once and its reservation outlives its jobs (`Batches`),
  an invalidation waits for every job that still runs on what it shut (`Acks`).
- `QuietAcknowledged` and `MemoryIsBounded` follow from it.

Only model-checked: liveness (`HoldsClose`, `ReceiptReachesSession`, `EveryInputAnswered`,
`Settles`, `RecoveryEnds`, `MinutesReturn`, `UploadsEnd`), which is beyond the provers, and that the queue
of `Uploads` is a sequence of files in `UploadsTypeOK`, which no theorem needs.

## 5. Plan

Done: `BudgetLedger`, `SpendCap`, `CallAccounting` with `PaidRequests`; `SessionLanes` with
`LaneJobs`; `VoiceTurns`; `VoiceLifecycle`, `VoiceCalls`, `VoiceRecovery`; `Concepts`, with the
wallet, the render limits and the end of the hour; `Uploads`.

Every invariant and every action property that a run checks is proved, and so is the refinement of
`PaidRequests`.

Next, in this order:
1. `Retirement`: the deadline set once, the readiness test, the order of the purge.
2. The purpose policy (off-topic scope, assessments that outlive new turns) and question focus
   over `SessionLanes`; the graceful stop of a call and composed calls over `VoiceCalls`.
3. Operator sessions.
4. Theorems about these: the retirement deadline never moves; a purge removes no row whose
   charge is still to come.

Not modelled, and why: the user interface (browser presentation; with its styles and texts it
is nearly a third of the implementation's lines), the wire formats of the provider plugins (the core sees them
through the invocation contract), document parsing, export and HTTP routing (data and I/O),
the relay of composed calls (audio frames; its accounting is in `BudgetLedger`), prompts,
replies and schemas (text), the demo host, scripts and release tooling. These make up most
of the repository's lines and hold little state that several actors share, which is why the
mapped share of all lines stays small.

## 6. Findings

`README.md:1138-1139` says that known usage settles "including actual over-maximum cost with
an overrun flag". `recover()` (`budget.js:549`) settles an open row with a recorded receipt
as completed at the receipt's charge, but its UPDATE does not write `overrun`: a charge above
the admitted maximum found at startup carries no flag until the receipt job posts the same
charge again. The run `budget_overrun` shows it.

`README.md:1237-1238` says "A changed choice supersedes in-flight lane work exactly like new
input and reruns unanswered input with the new binding", and `handlers.js:373` that work
superseded "by new input or a changed processing choice reruns instead of failing".
`scheduleLane` tells the two apart by comparing the lane's work before and after the run
(`handlers.js:374`). A run that awaits the owner's wallet does not notice its abort until the
wallet answers. When the visitor changes the model and changes it back in that time, the run
is aborted, ends with an error, and finds the work it was started for: its error is recorded
as a failure of the lane (`handlers.js:382`) and the input is not run again until a retry. The
run `lane_settings` shows it in six steps.

`README.md:931-933` says that a turn overtaken by an admitted higher ordinal "is refused with
`reason: "voice-turn-obsolete"` and no charge". When the owner's wallet is still awaited as
the later turn is admitted, `composed/authority.js:25-29` has its admission, with the
reservation made, before `worker.admitted` throws outside the `try` whose `finally` would
finish it: the refused turn keeps its reservation until a restart. The run `voice_turn_hold`
shows it. The same happens, without a refusal, when the wallet answers after the worker's
deadline (`LateReserve`).

What else was met while modelling, none of it a violation of a checked property:
- Voice: a hang-up during the check of a recover request still opens the replacement
  (README.md:765); an automatic recovery that meets a restarted server is refused with 403
  (`voice-handlers.js:632-633`), upon which the client ends the call instead of waiting for
  its person; `changePause(entry, false)` is acknowledged without asking for ownership again
  after its await; sleep and wake do not raise the pause revision, so a late resume clears
  their holds; a crash between the consumption of a claim and its `voice_calls` row keeps
  the minutes of that segment, as no row asks for their reconciliation (`MinutesReturn` speaks
  of saved rows). A reply that is complete and paid when its call is taken over is not
  committed (`sessionFor` fences it), while README.md:783 says "Dispatched paid work still
  completes and settles exactly once".
- Concepts: a vote on another concept during a render changes the references, so that the
  paid result is discarded; a request by hand that joins an aborted flight at its end is never
  planned; between a change of settings and the warning to the lane a result of the earlier
  choice may be stored; coverage may be out of date when the claim is consumed if a
  conversation's revision of consent lands during the read.
- Uploads: pausing the conversation makes queued files unreadable (`evaluateUploads` answers
  `session paused`), and a change of settings cancels them, where a person might expect them to wait.
