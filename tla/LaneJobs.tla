------------------------------ MODULE LaneJobs ------------------------------
(***************************************************************************)
(* The server's scheduler of the lanes of SessionLanes: schedule,          *)
(* scheduleLane and invalidate of packages/server/src/handlers.js, with    *)
(* the recorded lane failures, the visitor's requests that schedule work,  *)
(* and the recovery of unfinished work after a restart.                    *)
(*                                                                         *)
(* A lane has at most one job.  The job runs the lane, and runs it again   *)
(* when the work it was started for is no longer the work to do, or when   *)
(* it was woken meanwhile.  Nothing else runs a lane.                      *)
(***************************************************************************)
EXTENDS SessionLanes

CONSTANT MaxKicks   \* bound on requests that only schedule, and on restarts

ASSUME KicksAssumption == MaxKicks \in Nat

VARIABLES jobs,        \* the job of each lane
          failures,    \* lane_failures: the revision a lane last failed for
          todo,        \* handlers that schedule once an await is over
          booting,     \* the boot recovery has yet to look at the session
          kicks        \* such requests so far

jobVars == <<session, flights, slot, events, jobs, failures, todo, booting, kicks>>

NoWork == <<NoRevision, NoSelection>>

\* laneKey: what a lane would have to work on now.
LaneKey(s, lane) ==
  <<IF lane = "reaction" THEN ReplyRev(s) ELSE InputRev(s), s.sel>>

NoJob == [at |-> "none", flight |-> NoFlight, work |-> NoWork, wake |-> FALSE]

\* currentFailures drops what was recorded for another revision.
HasFailed(lane) == failures[lane] = InputRev(session)

Unfinished ==
  /\ session.active > 0
  /\ \/ session.answered # InputRev(session)
     \/ ~Deferred(session, "understanding") /\ ~Settled(session, "understanding")

JobsInit ==
  /\ LanesInit
  /\ jobs = [l \in Lanes |-> NoJob]
  /\ failures = [l \in Lanes |-> NoRevision]
  /\ todo = {} /\ booting = FALSE /\ kicks = 0

-----------------------------------------------------------------------------
(* Scheduling *)

\* Seeded fault: a wake-up finds the job running and is dropped.
ScheduledQuietly(js, lanes, wake) ==
  [l \in Lanes |-> IF l \notin lanes THEN js[l]
     ELSE IF js[l].at = "none" THEN [NoJob EXCEPT !.at = "due"] ELSE js[l]]

\* Seeded fault: scheduling forgets that the lane has a job.
ScheduledAnew(js, lanes, wake) ==
  [l \in Lanes |-> IF l \in lanes THEN [NoJob EXCEPT !.at = "due"] ELSE js[l]]

\* A new job starts in a later microtask; a running one only hears a wake-up.
Scheduled(js, lanes, wake) ==
  [l \in Lanes |-> IF l \notin lanes THEN js[l]
     ELSE IF js[l].at = "none" THEN [NoJob EXCEPT !.at = "due"]
     ELSE [js[l] EXCEPT !.wake = @ \/ wake]]

Schedule(wake) == jobs' = Scheduled(jobs, Lanes, wake)

\* Opening a stream does not retry a lane whose failure is on record.
Reconnected(js) == Scheduled(js, {l \in Lanes : ~HasFailed(l)}, FALSE)

-----------------------------------------------------------------------------
(* The job *)

\* The loop of scheduleLane: note the work, run the lane and await the run.
StartRun(lane) ==
  /\ jobs[lane].at = "due"
  /\ Spare # {}
  /\ LET f == CHOOSE g \in Spare : TRUE IN
       /\ Launch(lane, f)
       /\ jobs' = [jobs EXCEPT ![lane] =
            [NoJob EXCEPT !.at = "running", !.flight = f, !.work = LaneKey(session, lane)]]
  /\ UNCHANGED <<failures, todo, booting, kicks>>

Again(lane) == jobs[lane].work # LaneKey(session, lane) \/ jobs[lane].wake

\* Only the work the run was started for can fail, or resolve a failure.
Recorded(lane, failed) ==
  IF jobs[lane].work = LaneKey(session, lane)
    THEN [failures EXCEPT ![lane] = IF failed THEN InputRev(session) ELSE NoRevision]
    ELSE failures

\* The promise of the run settles, for the job and for a handler that awaits it.
Collect(lane) ==
  LET f == jobs[lane].flight IN
  /\ jobs[lane].at = "running"
  /\ End(f)
  /\ failures' = Recorded(lane, flights[f].failed)
  /\ jobs' = [jobs EXCEPT ![lane] =
       IF Again(lane) THEN [NoJob EXCEPT !.at = "due"] ELSE NoJob]
  /\ todo' = {[t EXCEPT !.waits = @ \ {f}] : t \in todo}
  /\ UNCHANGED <<booting, kicks>>

FlightWork(f) ==
  FlightStep(f) /\ UNCHANGED <<jobs, failures, todo, booting, kicks>>

-----------------------------------------------------------------------------
(* The visitor and the host *)

ClearFailures == failures' = [l \in Lanes |-> NoRevision]

\* A turn, an upload or a verification schedules in the same step.
NewInput ==
  /\ Verify \/ \E upload \in BOOLEAN : AddInput(upload)
  /\ Schedule(FALSE)
  /\ UNCHANGED <<failures, todo, booting, kicks>>

NewAddress == ChangeAddress /\ UNCHANGED <<jobs, failures, todo, booting, kicks>>

Await(why, waits) == todo' = todo \cup {[why |-> why, waits |-> waits, gate |-> session'.gate, id |-> events]}

\* invalidate clears the failures, and its caller acknowledges and schedules
\* when the cancelled runs have settled; after a withdrawal of consent there is
\* nothing to schedule.
Invalidate ==
  /\ WithdrawInput \/ ReviseConsent(TRUE)
  /\ Await("invalidation", Cancelled)
  /\ ClearFailures
  /\ UNCHANGED <<jobs, booting, kicks>>

WithdrawConsent ==
  /\ ReviseConsent(FALSE)
  /\ Await("withdrawal", Cancelled)
  /\ ClearFailures
  /\ UNCHANGED <<jobs, booting, kicks>>

\* The settings handler awaits the uploads it cancels before it schedules.
NewSettings ==
  /\ \E c \in Selections : ChangeSettings(c)
  /\ Await("settings", {})
  /\ ClearFailures
  /\ UNCHANGED <<jobs, booting, kicks>>

Acknowledge(t) ==
  /\ t.waits = {}
  /\ todo' = todo \ {t}
  /\ IF t.why = "invalidation" \/ (t.why = "settings" /\ Unfinished)
       THEN Schedule(FALSE) ELSE UNCHANGED jobs
  /\ UNCHANGED <<session, flights, slot, events, failures, booting, kicks>>

Pause ==
  /\ SetPaused(TRUE)
  /\ UNCHANGED <<jobs, failures, todo, booting, kicks>>

\* The broadcast of the resumed session wakes the lanes.
Resume ==
  /\ SetPaused(FALSE)
  /\ Schedule(TRUE)
  /\ UNCHANGED <<failures, todo, booting, kicks>>

Kick == kicks < MaxKicks /\ kicks' = kicks + 1

\* Retry, a turn sent again, or a consent that changes nothing for the
\* conversation.  Retry also starts assessment after the reply, which is one of
\* the orders in which due jobs may start.
Reschedule ==
  /\ Kick /\ Schedule(FALSE)
  /\ UNCHANGED <<session, flights, slot, events, failures, todo, booting>>

Reconnect ==
  /\ Kick /\ Unfinished
  /\ jobs' = Reconnected(jobs)
  /\ UNCHANGED <<session, flights, slot, events, failures, todo, booting>>

\* What a process holds in memory is gone, and the answers it awaited.
Restart ==
  /\ Kick
  /\ flights' = [f \in Flights |-> Idle]
  /\ slot' = [l \in Lanes |-> NoFlight]
  /\ jobs' = [l \in Lanes |-> NoJob]
  /\ todo' = {} /\ booting' = TRUE
  /\ UNCHANGED <<session, events, failures>>

Recover ==
  /\ booting /\ booting' = FALSE
  /\ jobs' = IF Unfinished THEN Reconnected(jobs) ELSE jobs
  /\ UNCHANGED <<session, flights, slot, events, failures, todo, kicks>>

JobStep(lane) == StartRun(lane) \/ Collect(lane)

Request ==
  \/ NewInput \/ NewAddress \/ Invalidate \/ WithdrawConsent \/ NewSettings
  \/ Pause \/ Resume \/ Reschedule \/ Reconnect \/ Restart

JobsNext ==
  \/ Request \/ Recover
  \/ \E t \in todo : Acknowledge(t)
  \/ \E lane \in Lanes : JobStep(lane)
  \/ \E f \in Flights : FlightWork(f)

JobsFairness ==
  /\ WF_jobVars(Recover)
  /\ WF_jobVars(\E t \in todo : Acknowledge(t))
  /\ \A lane \in Lanes : WF_jobVars(JobStep(lane))
  /\ \A f \in Flights : WF_jobVars(FlightWork(f))

JobsSpec == JobsInit /\ [][JobsNext]_jobVars /\ JobsFairness

-----------------------------------------------------------------------------
(* Properties *)

\* A run is always awaited by its lane's job, so that its failure is recorded
\* and its successor started: no paid run is ever on its own, and the lane's
\* own guard against a second run is never needed.
EveryRunAwaited ==
  /\ \A f \in Flights : Live(f) =>
       jobs[flights[f].lane].at = "running" /\ jobs[flights[f].lane].flight = f
  /\ \A lane \in Lanes : jobs[lane].at = "due" => slot[lane] = NoFlight

\* A withdrawal or a consent revision is acknowledged only when no run that
\* began before it is left, one aborted earlier for another reason included.
SettledBeforeAcknowledged ==
  [][\A t \in todo :
       /\ t.why \in {"invalidation", "withdrawal"}
       /\ t.id \notin {u.id : u \in todo'}
       => \A f \in Flights : flights'[f].at # "idle" => flights'[f].seen[2] >= t.gate]_jobVars

\* The visitor's input still lacks a reply, or an assessment it is entitled to,
\* with no pause, withdrawal or recorded failure that would explain it.
Owed(lane) ==
  /\ ~session.barred /\ ~session.paused /\ ~Deferred(session, lane)
  /\ ReplyOf(IF lane = "reaction" THEN session.answered ELSE session.und.rev) # ReplyRev(session)
  /\ ReplyOf(failures[lane]) # ReplyRev(session)

\* Whatever turns, withdrawals, changes of model, pauses and restarts fall into
\* the awaits of a run, no input is forgotten.
EveryInputAnswered == \A lane \in Lanes : []<>~Owed(lane)

\* "A changed choice supersedes in-flight lane work exactly like new input and
\* reruns unanswered input with the new binding" (README.md:1237-1238): a run
\* that was superseded does not leave a failure behind.
SupersededNotFailed ==
  [][\A lane \in Lanes :
       failures'[lane] \notin {failures[lane], NoRevision} => ~Aborted(jobs[lane].flight)]_jobVars
=============================================================================
