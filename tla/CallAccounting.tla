--------------------------- MODULE CallAccounting ---------------------------
(***************************************************************************)
(* One paid request in both books: the session's budget row (BudgetLedger) *)
(* and the hold on the provider account (SpendCap).  An invocation of      *)
(* packages/core/src/chat-completions.js moves both, one transaction at a  *)
(* time, and may be aborted while it waits or die between any two of them; *)
(* startup recovery (handlers.js, resume) and the receipt job of           *)
(* plugin-runtime.js (reconcileCosts) bring the books together again.      *)
(* One JavaScript turn runs to its end: only a crash can cut it short.     *)
(***************************************************************************)
EXTENDS BudgetLedger

CONSTANTS
  ChargeOf,      \* what the provider charges for the request of an attempt, if it arrives
  Ceiling,       \* the spend ceiling of a request
  AccountCap,    \* capMicro of the account
  Estimate,      \* estimateMicro of the admitted request
  Lookups,       \* generation lookups after an estimate (COST_ESTIMATE_ATTEMPTS)
  MaxCrashes,    \* bound of the model: process deaths
  NoAttempt      \* the receipt job is idle

ASSUME CallAssumption ==
  /\ CostBacked = Attempts
  /\ ChargeOf \in [Attempts -> Charges]
  /\ Ceiling \in Nat /\ AccountCap \in Nat /\ Estimate \in Nat
  /\ Lookups \in Nat \ {0} /\ MaxCrashes \in Nat
  /\ NoAttempt \notin Attempts

VARIABLES
  hold, gone, stored, live,   \* the account: see SpendCap
  call,                       \* the invocation of an attempt, in memory
  job,                        \* the receipt job, in memory
  chase,                      \* provider_cost_json.reconciled and .retryAttempts
  crashes

Account == INSTANCE SpendCap WITH
  Ceilings <- {Ceiling}, Amounts <- Charges, ConfiguredCap <- AccountCap, Caps <- {}

ledger  == vars
account == <<hold, gone, stored, live>>
callVars == <<ledger, account, call, job, chase, crashes>>

\* Where an invocation is.  In a stage of Turn it runs; elsewhere it waits.
Turn == {"reserved", "marked", "ready", "heard", "noted", "ending"}

NewCall == [at |-> "idle", ended |-> FALSE, aborted |-> FALSE, cost |-> NoAmount]
NoJob   == [on |-> NoAttempt, at |-> "idle", kind |-> "none", micro |-> NoAmount, saved |-> NoAmount]

CallInit ==
  /\ Init
  /\ Account!CapInit
  /\ call = [a \in Attempts |-> NewCall]
  /\ job = NoJob
  /\ chase = [a \in Attempts |-> [done |-> FALSE, tries |-> 0]]
  /\ crashes = 0

-----------------------------------------------------------------------------
Serving == up /\ live
Idle == (\A a \in Attempts : call[a].at \notin Turn) /\ job.at \in {"idle", "asking"}
At(a, stage) == Serving /\ call[a].at = stage
Go(a, stage) == call' = [call EXCEPT ![a].at = stage]

\* A receipt the fence refused is kept on the hold of the attempt.
HandOver(a) == IF retained'[a] # retained[a] THEN Account!Retain(a, retained'[a]) ELSE UNCHANGED account

\* A hold that is settled refuses another charge; no hold, nothing to settle.
Conflicting(a, c) == Account!Settled(a) /\ hold[a].actual # c
SettleAccount(a, c) ==
  IF Account!Exists(a) /\ ~Conflicting(a, c) THEN Account!Settle(a, c) ELSE UNCHANGED account

\* A hold whose request has no known charge.  Seeded fault: it is left as it is.
LeftOpen(a) == UNCHANGED account
Unresolved(a) == IF Account!Unsettled(a) THEN Account!MarkUncertain(a) ELSE UNCHANGED account

\* New evidence puts the row back on the list of the receipt job.
Requeue(a) == chase' = [chase EXCEPT ![a].done = @ /\ cost'[a] = cost[a]]

\* The report of an invocation, made once: by finish() or by the abort listener.
Report(a, outcome, c) ==
  IF call[a].ended THEN UNCHANGED <<ledger, account>>
  ELSE Settle(a, outcome, c, FALSE) /\ HandOver(a)

-----------------------------------------------------------------------------
(* The invocation *)

Prepare(a) ==
  /\ Serving /\ Idle
  /\ (\E q \in Quotes : Admit(a, q)) \/ Claim(a)
  /\ UNCHANGED <<account, call, job, chase, crashes>>

\* beginInvocation: a claim that cannot be consumed ends the invocation.
Begin(a) ==
  /\ Serving /\ Idle
  /\ Consume(a)
  /\ Go(a, IF row'[a].state = "dispatched" THEN "begun" ELSE "over")
  /\ UNCHANGED <<account, job, chase, crashes>>

\* refuse(): the session, its consent or its purpose changed before the dispatch.
Refuse(a) ==
  /\ Serving /\ Idle
  /\ token[a] = "held" /\ call[a].at = "idle"
  /\ Report(a, "cancelled", 0)
  /\ call' = [call EXCEPT ![a].at = "over", ![a].ended = TRUE]
  /\ UNCHANGED <<job, chase, crashes>>

\* The abort listener settles at once: at zero before the request, else as unknown.
Abort(a) ==
  /\ Serving /\ Idle
  /\ call[a].at \in {"begun", "waiting"} /\ ~call[a].aborted
  /\ IF call[a].at = "begun" THEN Report(a, "cancelled", 0) ELSE Report(a, "uncertain", NoAmount)
  /\ call' = [call EXCEPT ![a].aborted = TRUE, ![a].ended = TRUE]
  /\ UNCHANGED <<job, chase, crashes>>

\* dispatch(): no hold, no request.
Stop(a) ==
  /\ At(a, "begun") /\ Idle
  /\ call[a].aborted \/ Account!Breached \/ ~Account!Fits(Account!AmountHeld(Ceiling))
  /\ Report(a, "cancelled", 0)
  /\ call' = [call EXCEPT ![a].at = "over", ![a].ended = TRUE]
  /\ UNCHANGED <<job, chase, crashes>>

ReserveSpend(a) ==
  /\ At(a, "begun") /\ Idle
  /\ ~call[a].aborted
  /\ Account!Reserve(a, Ceiling)
  /\ Go(a, "reserved")
  /\ UNCHANGED <<ledger, job, chase, crashes>>

\* The dispatch goes on record in the session, unless its billing is sealed.
DispatchCost(a) ==
  /\ At(a, "reserved")
  /\ IF Sealed(a)
     THEN Unresolved(a) /\ Go(a, "ending") /\ UNCHANGED ledger
     ELSE MarkCostDispatch(a) /\ Go(a, "marked") /\ UNCHANGED account
  /\ UNCHANGED <<job, chase, crashes>>

DispatchSpend(a) ==
  /\ At(a, "marked")
  /\ Account!Dispatch(a)
  /\ Go(a, "ready")
  /\ UNCHANGED <<ledger, job, chase, crashes>>

Fetch(a) ==
  /\ At(a, "ready")
  /\ CallProvider(a)
  /\ Go(a, "waiting")
  /\ UNCHANGED <<account, job, chase, crashes>>

\* The generation id arrives ahead of the charge.
HearName(a) ==
  /\ Serving /\ Idle
  /\ call[a].at \in {"waiting", "late"}
  /\ ~Sealed(a) /\ cost[a].gen = NoGeneration
  /\ \E g \in Generations : ObserveCost(a, g, NoAmount)
  /\ Requeue(a)
  /\ UNCHANGED <<account, call, job, crashes>>

\* The charge arrives, after an abort too: first to the hold, then to the row.
HearCost(a) ==
  /\ Serving /\ Idle
  /\ call[a].at \in {"waiting", "late"}
  /\ Account!Record(a, ChargeOf[a])
  /\ call' = [call EXCEPT ![a].at = "heard", ![a].cost = ChargeOf[a]]
  /\ UNCHANGED <<ledger, job, chase, crashes>>

NoteCost(a) ==
  /\ At(a, "heard")
  /\ ObserveCost(a, cost[a].gen, call[a].cost) /\ up'
  /\ HandOver(a)
  /\ Requeue(a)
  /\ Go(a, "noted")
  /\ UNCHANGED <<job, crashes>>

\* No charge came: an error, a deadline or an abort.
GiveUp(a) ==
  /\ At(a, "waiting") /\ Idle
  /\ Unresolved(a)
  /\ Go(a, IF call[a].aborted THEN "late" ELSE "ending")
  /\ UNCHANGED <<ledger, job, chase, crashes>>

NoAnswer(a) ==
  /\ At(a, "late") /\ Idle
  /\ Go(a, "over")
  /\ UNCHANGED <<ledger, account, job, chase, crashes>>

SettleSpend(a) ==
  /\ At(a, "noted")
  /\ SettleAccount(a, call[a].cost)
  /\ Go(a, "ending")
  /\ UNCHANGED <<ledger, job, chase, crashes>>

\* finish(): a usable result completes, any other with a charge is cancelled.
Finish(a) ==
  /\ At(a, "ending")
  /\ IF call[a].cost = NoAmount THEN Report(a, "uncertain", NoAmount)
     ELSE \E o \in {"completed", "cancelled"} : Report(a, o, call[a].cost)
  /\ call' = [call EXCEPT ![a].at = "over", ![a].ended = TRUE]
  /\ UNCHANGED <<job, chase, crashes>>

-----------------------------------------------------------------------------
(* The receipt job *)

\* The evidence of the account.  Seeded fault: the job does not ask for it.
UnaskedCost(a) == NoAmount
SavedCost(a) == IF ~Account!Exists(a) THEN NoAmount
                ELSE IF hold[a].actual # NoAmount THEN hold[a].actual ELSE hold[a].seen

\* Evidence already in the books, in the order the job trusts it.
\* Seeded fault: a posted estimate is taken for a receipt.
KnownOrEstimated(a) ==
  IF SavedCost(a) # NoAmount THEN SavedCost(a)
  ELSE IF cost[a].charged # NoAmount THEN cost[a].charged
  ELSE IF fix[a].kind # "none" THEN fix[a].micro
  ELSE IF bill[a].outcome # "uncertain" THEN bill[a].micro ELSE NoAmount
KnownCost(a) ==
  IF SavedCost(a) # NoAmount THEN SavedCost(a)
  ELSE IF cost[a].charged # NoAmount THEN cost[a].charged
  ELSE IF fix[a].kind = "receipt" THEN fix[a].micro
  ELSE IF bill[a].outcome # "uncertain" THEN bill[a].micro ELSE NoAmount

\* pendingCosts(), deferredCosts()
Pending(a) == Settled(a) /\ ~Sealed(a) /\ ~chase[a].done

Pick(a) ==
  /\ Serving /\ Idle /\ job.at = "idle"
  /\ Pending(a)
  /\ job' = [on |-> a, at |-> IF KnownCost(a) = NoAmount THEN "asking" ELSE "saving",
             kind |-> IF KnownCost(a) = NoAmount THEN "none" ELSE "receipt",
             micro |-> KnownCost(a), saved |-> SavedCost(a)]
  /\ UNCHANGED <<ledger, account, call, chase, crashes>>

\* The provider answers for a generation it was asked about, and only so often.
Answer(a) ==
  /\ Serving /\ Idle /\ job.on = a /\ job.at = "asking"
  /\ Called(a) /\ cost[a].gen # NoGeneration /\ chase[a].tries < Lookups
  /\ job' = [job EXCEPT !.at = "saving", !.kind = "receipt", !.micro = ChargeOf[a]]
  /\ UNCHANGED <<ledger, account, call, chase, crashes>>

\* Past the window an estimate stands in.  A response body outlives its abort by
\* a second, the window is minutes: no estimate overtakes a late charge.
Unanswered(a) ==
  /\ Serving /\ Idle /\ job.on = a /\ job.at = "asking"
  /\ job' = IF call[a].at # "over" THEN NoJob
            ELSE [job EXCEPT !.at = "saving", !.kind = "estimate", !.micro = Larger(Estimate, fix[a].micro)]
  /\ UNCHANGED <<ledger, account, call, chase, crashes>>

\* Evidence of the account is first recorded on the row.
SaveEvidence(a) ==
  /\ Serving /\ job.on = a /\ job.at = "saving"
  /\ IF job.saved = NoAmount THEN UNCHANGED <<ledger, account, chase>>
     ELSE ObserveCost(a, cost[a].gen, job.saved) /\ up' /\ HandOver(a) /\ Requeue(a)
  /\ job' = IF Sealed(a) /\ job.saved # NoAmount THEN NoJob ELSE [job EXCEPT !.at = "posting"]
  /\ UNCHANGED <<call, crashes>>

\* An exact replay changes nothing; a conflict ends this round of the job.
Replayed(a) == fix[a].kind # "none" /\ fix[a].micro = job.micro
PostEvidence(a) ==
  /\ Serving /\ job.on = a /\ job.at = "posting"
  /\ IF CostAccepted(a, job.kind, job.micro)
     THEN /\ ReconcileCost(a, job.kind, job.micro) /\ HandOver(a)
          /\ job' = IF Sealed(a) THEN NoJob ELSE [job EXCEPT !.at = "spending"]
     ELSE /\ job' = IF Replayed(a) THEN [job EXCEPT !.at = "spending"] ELSE NoJob
          /\ UNCHANGED <<ledger, account>>
  /\ UNCHANGED <<call, chase, crashes>>

\* reconcileSpend, acknowledgeCost: a receipt is done; an estimate stays on the
\* list while its generation may still be looked up.
Acknowledge(a) ==
  /\ Serving /\ job.on = a /\ job.at = "spending"
  /\ IF job.kind = "receipt"
     THEN /\ SettleAccount(a, job.micro)
          /\ chase' = [chase EXCEPT ![a].done = @ \/ ~Conflicting(a, job.micro)]
     ELSE LET tries == IF cost[a].gen = NoGeneration THEN 0
                       ELSE IF chase[a].tries < Lookups THEN chase[a].tries + 1 ELSE Lookups
          IN /\ chase' = [chase EXCEPT ![a] = [done |-> tries \notin 1 .. Lookups - 1, tries |-> tries]]
             /\ UNCHANGED account
  /\ job' = NoJob
  /\ UNCHANGED <<ledger, call, crashes>>

-----------------------------------------------------------------------------
(* Retirement, death and startup *)

SealBilling(s) ==
  /\ Serving /\ Idle
  /\ Seal(s)
  /\ UNCHANGED <<account, call, job, chase, crashes>>

\* The process may also die inside observeCost(), between its two transactions.
Die ==
  /\ crashes < MaxCrashes
  /\ \/ Crash /\ UNCHANGED chase
     \/ \E a \in Attempts : call[a].at = "heard" /\ ~Sealed(a) /\ ObserveCost(a, cost[a].gen, call[a].cost) /\ ~up' /\ Requeue(a)
     \/ /\ job.at = "saving" /\ job.saved # NoAmount /\ ~Sealed(job.on)
        /\ ObserveCost(job.on, cost[job.on].gen, job.saved) /\ ~up' /\ Requeue(job.on)
  /\ Account!Stop
  /\ call' = [a \in Attempts |-> IF row[a].state = "none" THEN call[a]
                                 ELSE [call[a] EXCEPT !.at = "over", !.ended = TRUE, !.cost = NoAmount]]
  /\ job' = NoJob
  /\ crashes' = crashes + 1

RecoverLedger ==
  /\ Recover
  /\ UNCHANGED <<account, call, job, chase, crashes>>

RecoverAccount ==
  /\ up
  /\ (\E a \in Attempts : Account!RecoverHold(a)) \/ Account!Resume
  /\ UNCHANGED <<ledger, call, job, chase, crashes>>

Invocation(a) ==
  \/ Prepare(a) \/ Begin(a) \/ Refuse(a) \/ Abort(a) \/ Stop(a)
  \/ ReserveSpend(a) \/ DispatchCost(a) \/ DispatchSpend(a) \/ Fetch(a)
  \/ HearName(a) \/ HearCost(a) \/ NoteCost(a) \/ GiveUp(a) \/ NoAnswer(a)
  \/ SettleSpend(a) \/ Finish(a)

ReceiptJob(a) == Answer(a) \/ Unanswered(a) \/ SaveEvidence(a) \/ PostEvidence(a) \/ Acknowledge(a)

CallNext ==
  \/ \E a \in Attempts : Invocation(a) \/ Pick(a) \/ ReceiptJob(a)
  \/ \E s \in Sessions : SealBilling(s)
  \/ Die \/ RecoverLedger \/ RecoverAccount

\* A turn runs to its end, a wait is bounded by its deadline (operationScope), a
\* host that died is started again, and the receipt job, which rotates through
\* its rows (costRetryOffset), keeps coming back to each of them.
Fairness ==
  /\ WF_callVars(RecoverLedger) /\ WF_callVars(RecoverAccount)
  /\ \A a \in Attempts :
       /\ WF_callVars(Stop(a) \/ ReserveSpend(a) \/ DispatchCost(a) \/ DispatchSpend(a) \/ Fetch(a)
                      \/ NoteCost(a) \/ GiveUp(a) \/ NoAnswer(a) \/ SettleSpend(a) \/ Finish(a))
       /\ WF_callVars(ReceiptJob(a))
       /\ SF_callVars(Pick(a))

CallSpec == CallInit /\ [][CallNext]_callVars /\ Fairness

-----------------------------------------------------------------------------
(* Properties *)

TrueCharge(a) == IF Called(a) THEN ChargeOf[a] ELSE 0
Known(a)      == Settled(a) /\ (fix[a].kind = "receipt" \/ bill[a].outcome # "uncertain")

\* A settled hold carries what the provider really charged, whichever of the
\* invocation, the fence, startup recovery or the receipt job settled it.
AccountTruthful ==
  \A a \in Attempts : hold[a].actual # NoAmount => hold[a].actual = TrueCharge(a)

\* A session's charge that counts as known is what the provider really charged:
\* no crash, abort or late answer makes a paid request free or a free one paid.
SessionTruthful ==
  \A a \in Attempts : Known(a) => bill[a].micro = TrueCharge(a)

\* The account never understates what the provider really charges, and commits no
\* more than its cap, unless a single request cost more than its ceiling.
RealSpendCapped ==
  (\A a \in Attempts : Called(a) => ChargeOf[a] <= Ceiling)
    => /\ SumFunction([a \in Attempts |-> TrueCharge(a)]) <= Account!Committed
       /\ Account!Committed <= AccountCap

\* The two books implement PaidRequests: every step of an invocation, of startup
\* or of the receipt job holds, sends, settles one book, or changes nothing there.
StageOf(a) == IF Called(a) THEN "sent" ELSE IF Account!Exists(a) THEN "held" ELSE "idle"
Promise == INSTANCE PaidRequests WITH
  Requests <- Attempts, HoldOf <- Account!AmountHeld(Ceiling), Unknown <- NoAmount,
  stage <- [a \in Attempts |-> StageOf(a)],
  account <- [a \in Attempts |-> hold[a].actual],
  session <- [a \in Attempts |-> IF Known(a) THEN bill[a].micro ELSE NoAmount]
Promised == Promise!SpendSpec

\* No hold stays open: each is settled or declared uncertain in the end, so that
\* erasure (assertRetirementSettled) need not wait for its deadline.
HoldsClose ==
  \A a \in Attempts : [](hold[a].state \in {"reserved", "dispatched"} => <>(hold[a].state \in {"uncertain", "confirmed"}))

\* A charge settled on the account reaches the session that caused it, unless its
\* billing is sealed.
ReceiptReachesSession ==
  \A a \in Attempts : [](Account!Settled(a) /\ Settled(a) => <>(Sealed(a) \/ bill[a].micro = hold[a].actual))
=============================================================================
