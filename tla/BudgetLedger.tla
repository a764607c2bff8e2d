---------------------------- MODULE BudgetLedger ----------------------------
(***************************************************************************)
(* The durable budget ledger of packages/server/src/budget.js: one row per *)
(* provider attempt, from its admission under the conversation's caps to   *)
(* its settlement and the corrections posted afterwards.  Every operation  *)
(* of the class is one SQLite transaction, hence one action.  A process    *)
(* crash loses the in-memory claims; recovery settles what was left open.  *)
(* The retirement fence (storage.js, sealRetirement) makes a session's     *)
(* billing immutable; a receipt that arrives behind it is handed to the    *)
(* attempt's host reservation instead.                                     *)
(***************************************************************************)
EXTENDS Naturals, Sequences, FiniteSets, Functions

CONSTANTS
  Attempts,      \* attempt ids (random UUIDs: each names one admission)
  Sessions,      \* conversations
  SessionOf,     \* the conversation an attempt is admitted for
  LaneOf,        \* the lane an attempt is admitted for
  ParentOf,      \* the voice call a component attempt belongs to
  CostBacked,    \* attempts admitted with a provider cost record
  SessionCap,    \* sessionCapMicro
  VisitorCap,    \* visitorCapMicro
  Quotes,        \* admission maxima callers ask for
  Extensions,    \* cumulative maxima a voice call asks to extend to
  Reports,       \* outcomes an invocation reports
  Charges,       \* amounts a provider can charge
  Generations,   \* provider generation ids
  NoAmount,      \* an absent amount
  NoGeneration   \* an absent generation id

Lanes == {"reaction", "understanding", "voice", "concept", "extractor", "stt", "tts"}
Outcomes == {"completed", "cancelled", "uncertain"}
Quote == [max : Nat, vmax : Nat, exposure : Nat, vexposure : Nat]

Voice     == {a \in Attempts : LaneOf[a] = "voice"}
Component == {a \in Attempts : LaneOf[a] \in {"stt", "tts"}}

ASSUME LedgerAssumption ==
  /\ IsFiniteSet(Attempts)
  /\ SessionOf \in [Attempts -> Sessions]
  /\ LaneOf \in [Attempts -> Lanes]
  /\ ParentOf \in [Component -> Voice]
  /\ \A c \in Component : SessionOf[ParentOf[c]] = SessionOf[c]
  /\ CostBacked \subseteq Attempts \ (Voice \cup Component)
  /\ SessionCap \in Nat /\ VisitorCap \in Nat
  /\ Quotes \subseteq Quote
  /\ Extensions \subseteq [max : Nat, vmax : Nat]
  /\ Reports \subseteq Outcomes
  /\ Charges \subseteq Nat
  /\ NoAmount \notin Nat /\ NoGeneration \notin Generations

VARIABLES
  row,       \* the admission: state, maxima, retained voice exposure
  bill,      \* the settlement: outcome, charge, flags
  observed,  \* component_json.observedMicro
  cost,      \* provider_cost_json
  fix,       \* cost_reconciliation_json or voice_reconciliation_json
  audit,     \* budget_corrections, oldest first
  token,     \* the in-memory claim: "none", "held" or "spent"
  reach,     \* how far an attempt ever got: "unsent", "burned" (claim consumed), "called"
  sealed,    \* sessions with retirement_pending.billing_sealed = 1
  retained,  \* charge handed to the host reservation behind the fence
  up         \* the exclusive writer process is running

durable == <<row, bill, observed, cost, fix, audit>>
vars    == <<row, bill, observed, cost, fix, audit, token, reach, sealed, retained, up>>

MaybeAmount == Nat \cup {NoAmount}

Row  == [state : {"none", "admitted", "claimed", "dispatched", "settled"},
         max : Nat, vmax : Nat, exposure : Nat, vexposure : Nat, closing : BOOLEAN]
Bill == [outcome : Outcomes \cup {"none"}, micro : Nat, vmicro : Nat, overrun : BOOLEAN, released : BOOLEAN]
Cost == [gen : Generations \cup {NoGeneration}, charged : MaybeAmount, started : BOOLEAN]
Fix  == [kind : {"none", "estimate", "receipt"}, micro : Nat, vmicro : Nat]
CorrectionRecord == [old : Nat, new : Nat, vold : Nat, vnew : Nat]

NoRow  == [state |-> "none", max |-> 0, vmax |-> 0, exposure |-> 0, vexposure |-> 0, closing |-> FALSE]
NoBill == [outcome |-> "none", micro |-> 0, vmicro |-> 0, overrun |-> FALSE, released |-> FALSE]
NoCost == [gen |-> NoGeneration, charged |-> NoAmount, started |-> FALSE]
NoFix  == [kind |-> "none", micro |-> 0, vmicro |-> 0]

Init ==
  /\ row      = [a \in Attempts |-> NoRow]
  /\ bill     = [a \in Attempts |-> NoBill]
  /\ observed = [a \in Attempts |-> 0]
  /\ cost     = [a \in Attempts |-> NoCost]
  /\ fix      = [a \in Attempts |-> NoFix]
  /\ audit    = [a \in Attempts |-> <<>>]
  /\ token    = [a \in Attempts |-> "none"]
  /\ reach    = [a \in Attempts |-> "unsent"]
  /\ sealed   = {}
  /\ retained = [a \in Attempts |-> NoAmount]
  /\ up       = TRUE

-----------------------------------------------------------------------------
(* Reads *)

Larger(x, y) == IF x >= y THEN x ELSE y

Called(a)  == reach[a] = "called"
Sealed(a)  == SessionOf[a] \in sealed
Settled(a) == row[a].state = "settled"
Open(a)    == row[a].state \in {"admitted", "claimed", "dispatched"}

\* What an attempt takes from the session cap, and a voice attempt from the
\* visitor cap: the charge once settled, the maximum (or what a component
\* already used) until then.
Held(a)  == IF Settled(a) THEN bill[a].micro ELSE Larger(row[a].max, observed[a])
VHeld(a) == IF Settled(a) THEN bill[a].vmicro ELSE row[a].vmax

Used(s)        == SumFunctionOnSet([a \in Attempts |-> Held(a)], {a \in Attempts : SessionOf[a] = s})
VisitorUsed(s) == SumFunctionOnSet([a \in Attempts |-> VHeld(a)], {a \in Voice : SessionOf[a] = s})

\* Seeded fault: what is already held is not consulted.
CanAdmitAlone(s, max, vmax) == max <= SessionCap /\ vmax <= VisitorCap
CanAdmit(s, max, vmax) == Used(s) + max <= SessionCap /\ VisitorUsed(s) + vmax <= VisitorCap

\* What an attempt is charged when its provider's account is missing.
\* Seeded fault: the admitted maximum alone.
AdmittedMaximum(a) == row[a].max
FullExposure(a) == IF a \in Voice THEN Larger(row[a].max, row[a].exposure)
                   ELSE Larger(row[a].max, observed[a])

\* The amounts a lane may ask for: reasoning and components reserve nothing of
\* the visitor's voice allowance, extraction is free, only voice has exposure.
LaneAccepts(a, q) ==
  /\ a \notin Voice => q.vmax = 0 /\ q.exposure = 0 /\ q.vexposure = 0
  /\ a \in Voice => \/ q.exposure = 0 /\ q.vexposure = 0
                    \/ q.exposure >= q.max /\ q.vexposure >= q.vmax
  /\ LaneOf[a] = "extractor" => q.max = 0

ParentOpen(a) ==
  a \in Component => row[ParentOf[a]].state = "dispatched" /\ ~row[ParentOf[a]].closing

-----------------------------------------------------------------------------
(* Admission, claim and dispatch *)

Admit(a, q) ==
  /\ up /\ ~Sealed(a)
  /\ LaneAccepts(a, q)
  /\ ParentOpen(a)
  /\ row[a].state = "none"
  /\ CanAdmit(SessionOf[a], q.max, q.vmax)
  /\ row' = [row EXCEPT ![a] = [state |-> "admitted", max |-> q.max, vmax |-> q.vmax,
                                exposure |-> q.exposure, vexposure |-> q.vexposure, closing |-> FALSE]]
  /\ UNCHANGED <<bill, observed, cost, fix, audit, token, reach, sealed, retained, up>>

\* The claim returns a closure that only this process holds.
Claim(a) ==
  /\ up /\ ~Sealed(a)
  /\ row[a].state = "admitted"
  /\ row' = [row EXCEPT ![a].state = "claimed"]
  /\ token' = [token EXCEPT ![a] = "held"]
  /\ UNCHANGED <<bill, observed, cost, fix, audit, reach, sealed, retained, up>>

\* The closure burns itself first; the row follows unless it was settled in the
\* meantime or the fence refuses the write.  A component rechecks its call.
Consume(a) ==
  /\ up
  /\ ParentOpen(a)
  /\ token[a] = "held"
  /\ token' = [token EXCEPT ![a] = "spent"]
  /\ IF row[a].state = "claimed" /\ ~Sealed(a)
     THEN /\ row' = [row EXCEPT ![a].state = "dispatched"]
          /\ reach' = [reach EXCEPT ![a] = "burned"]
     ELSE UNCHANGED <<row, reach>>
  /\ UNCHANGED <<bill, observed, cost, fix, audit, sealed, retained, up>>

MarkCostDispatch(a) ==
  /\ up /\ ~Sealed(a)
  /\ a \in CostBacked
  /\ token[a] = "spent"
  /\ row[a].state = "dispatched"
  /\ cost' = [cost EXCEPT ![a].started = TRUE]
  /\ UNCHANGED <<row, bill, observed, fix, audit, token, reach, sealed, retained, up>>

\* The request leaves the process: after the claim is consumed and, for a
\* provider with receipts, after the dispatch is on record.
CallProvider(a) ==
  /\ up
  /\ token[a] = "spent"
  /\ row[a].state = "dispatched"
  /\ a \in CostBacked => cost[a].started
  /\ reach' = [reach EXCEPT ![a] = "called"]
  /\ UNCHANGED <<row, bill, observed, cost, fix, audit, token, sealed, retained, up>>

-----------------------------------------------------------------------------
(* Receipts: the transactions the retirement fence can roll back *)

\* Behind the fence the attempt keeps its row; a validated charge goes to the
\* host reservation, unless that already has one.
Retain(a, c) ==
  retained' = IF c # NoAmount /\ retained[a] = NoAmount
              THEN [retained EXCEPT ![a] = c] ELSE retained

Overran(a, c) == c > row[a].max

\* The row after a charge c (and visitor charge v) has been posted to it.
Posted(b, a, c, v) == [b EXCEPT ![a].micro = c, ![a].vmicro = v, ![a].overrun = Overran(a, c)]

\* Seeded fault: the correction starts from the admitted maximum.
CorrectionFromMaximum(a, c, v) == [old |-> row[a].max, new |-> c, vold |-> row[a].vmax, vnew |-> v]
Correction(a, c, v) == [old |-> bill[a].micro, new |-> c, vold |-> bill[a].vmicro, vnew |-> v]

\* The settlement of an attempt.
Terminal(a, outcome, micro, vmicro) ==
  [outcome |-> outcome, micro |-> micro, vmicro |-> vmicro, overrun |-> Overran(a, micro), released |-> FALSE]

\* A first report of the terminal; replays of it change nothing.
Claimed(a) == row[a].state \in {"claimed", "dispatched"} /\ token[a] # "none"

\* settle(): `outcome` and `micro` are the reported terminal.  Reported usage is
\* priced by the caller's rates; NoAmount stands for a price that is no safe
\* integer (an overrun), or for an uncertain report without a charge.  Only a
\* dispatched claim carries liability, and unknown liability is the whole maximum.
Settle(a, outcome, micro, estimated) ==
  /\ up
  /\ Claimed(a)
  /\ a \notin Voice \cup Component
  /\ outcome = "uncertain" => ~estimated
  /\ LET dispatched == row[a].state = "dispatched"
         unknown    == dispatched /\ micro = NoAmount
         charge     == IF ~dispatched THEN 0 ELSE IF unknown THEN row[a].max ELSE micro
     IN IF Sealed(a)
        THEN /\ Retain(a, IF dispatched /\ outcome # "uncertain" /\ ~estimated THEN micro ELSE NoAmount)
             /\ UNCHANGED durable
        ELSE /\ row' = [row EXCEPT ![a].state = "settled"]
             /\ bill' = [bill EXCEPT ![a] =
                  [Terminal(a, IF ~dispatched THEN "cancelled" ELSE IF unknown THEN "uncertain" ELSE outcome,
                            charge, 0) EXCEPT !.overrun = Overran(a, charge) \/ (unknown /\ outcome # "uncertain")]]
             /\ UNCHANGED <<observed, cost, fix, audit, retained>>
  /\ UNCHANGED <<token, reach, sealed, up>>

\* settleVoice(): the provider confirmed the closure with its usage, or the call
\* retains the largest of its maximum, its exposure and the reported charge.
SettleVoice(a, outcome, micro, vmicro, estimated) ==
  /\ up
  /\ Claimed(a)
  /\ a \in Voice
  /\ outcome # "uncertain" => micro # NoAmount
  /\ outcome = "uncertain" => ~estimated
  /\ LET dispatched == row[a].state = "dispatched"
         known      == outcome # "uncertain"
         exposure   == Larger(FullExposure(a), IF micro = NoAmount THEN 0 ELSE micro)
         charge     == IF ~dispatched THEN 0 ELSE IF known THEN micro ELSE exposure
     IN IF Sealed(a)
        THEN /\ Retain(a, IF dispatched /\ known /\ ~estimated THEN micro ELSE NoAmount)
             /\ UNCHANGED durable
        ELSE /\ row' = [row EXCEPT ![a].state = "settled"]
             /\ bill' = [bill EXCEPT ![a] =
                  Terminal(a, IF ~dispatched THEN "cancelled" ELSE outcome, charge,
                           IF ~dispatched THEN 0 ELSE IF known THEN vmicro
                           ELSE Larger(row[a].vmax, row[a].vexposure))]
             /\ UNCHANGED <<observed, cost, fix, audit, retained>>
  /\ UNCHANGED <<token, reach, sealed, up>>

\* observeComponent(): usage of a running component, which only grows.
ObserveComponent(a, used) ==
  /\ up /\ ~Sealed(a)
  /\ a \in Component
  /\ row[a].state = "dispatched"
  /\ observed' = [observed EXCEPT ![a] = Larger(@, used)]
  /\ UNCHANGED <<row, bill, cost, fix, audit, token, reach, sealed, retained, up>>

\* settleComponent(): usage already observed cannot be reported away.
SettleComponent(a, outcome, used, charged) ==
  /\ up /\ ~Sealed(a)
  /\ Claimed(a)
  /\ a \in Component
  /\ outcome # "uncertain" => used # NoAmount /\ charged \in {used, NoAmount}
  /\ LET dispatched == row[a].state = "dispatched"
         seen       == Larger(observed[a], IF used = NoAmount THEN 0 ELSE used)
         charge     == IF ~dispatched THEN 0
                       ELSE IF outcome # "uncertain" THEN used
                       ELSE Larger(Larger(row[a].max, seen), IF charged = NoAmount THEN 0 ELSE charged)
     IN /\ dispatched /\ outcome # "uncertain" => charge >= observed[a]
        /\ observed' = [observed EXCEPT ![a] = seen]
        /\ row' = [row EXCEPT ![a].state = "settled"]
        /\ bill' = [bill EXCEPT ![a] =
             Terminal(a, IF ~dispatched THEN "cancelled" ELSE outcome, charge, 0)]
  /\ UNCHANGED <<cost, fix, audit, token, reach, sealed, retained, up>>

\* Whether a settled charge may still be corrected to c: an estimate may be
\* superseded by a receipt or raised by a larger estimate, and an outcome that
\* was not uncertain must agree with the evidence.
\* Seeded fault: any receipt is accepted, whatever is already posted.
CostAcceptedAgain(a, kind, c) ==
  /\ fix[a].kind = "none" \/ kind = "receipt" \/ c > fix[a].micro
  /\ bill[a].outcome = "uncertain" \/ bill[a].micro = c
CostAccepted(a, kind, c) ==
  /\ \/ fix[a].kind = "none"
     \/ fix[a].kind = "estimate" /\ (kind = "receipt" \/ c > fix[a].micro)
  /\ bill[a].outcome = "uncertain" \/ bill[a].micro = c

PostCost(a, kind, c) ==
  /\ bill'  = Posted(bill, a, c, bill[a].vmicro)
  /\ fix'   = [fix EXCEPT ![a] = [kind |-> kind, micro |-> c, vmicro |-> 0]]
  /\ audit' = [audit EXCEPT ![a] = Append(@, Correction(a, c, bill[a].vmicro))]

\* The evidence can be true: the provider was called, or the amount is on record.
Evidenced(a, c) == Called(a) \/ c \in {bill[a].micro, cost[a].charged}

\* reconcileCost(), called by the cost recovery job.
ReconcileCost(a, kind, c) ==
  /\ up
  /\ a \in CostBacked /\ Settled(a)
  /\ CostAccepted(a, kind, c)
  /\ kind = "receipt" => Evidenced(a, c)
  /\ IF Sealed(a)
     THEN Retain(a, IF kind = "receipt" THEN c ELSE NoAmount) /\ UNCHANGED durable
     ELSE PostCost(a, kind, c) /\ UNCHANGED <<row, observed, cost, retained>>
  /\ UNCHANGED <<token, reach, sealed, up>>

\* observeCost(): a generation id, a charge or both, none in conflict with what is
\* recorded.  A charge for a settled attempt is posted by a second transaction,
\* which the process may not live to run.
ObserveCost(a, g, c) ==
  LET previous == cost[a]
      late     == Settled(a) /\ c # NoAmount
  IN /\ up
     /\ a \in CostBacked /\ row[a].state \in {"dispatched", "settled"}
     /\ Called(a) \/ (g = NoGeneration /\ c = 0)
     /\ previous.gen # NoGeneration /\ g # NoGeneration => previous.gen = g
     /\ previous.charged # NoAmount /\ c # NoAmount => previous.charged = c
     /\ IF Sealed(a)
        THEN Retain(a, c) /\ UNCHANGED <<durable, token, up>>
        ELSE /\ cost' = [cost EXCEPT ![a].gen = IF g = NoGeneration THEN @ ELSE g,
                                     ![a].charged = IF c = NoAmount THEN @ ELSE c]
             /\ \/ /\ late /\ CostAccepted(a, "receipt", c)
                   /\ PostCost(a, "receipt", c)
                   /\ UNCHANGED <<token, up>>
                \/ /\ ~(late /\ CostAccepted(a, "receipt", c))
                   /\ UNCHANGED <<bill, fix, audit, token, up>>
                \/ /\ late
                   /\ up' = FALSE
                   /\ token' = [b \in Attempts |-> "none"]
                   /\ UNCHANGED <<bill, fix, audit>>
             /\ UNCHANGED <<row, observed, retained>>
     /\ UNCHANGED <<reach, sealed>>

\* reconcileVoice(): later authenticated usage corrects the call; a duration
\* estimate may be replaced once by the provider's own charge.
ReconcileVoice(a, kind, c, v) ==
  /\ up
  /\ a \in Voice /\ Settled(a)
  /\ fix[a].kind = "none" \/ (fix[a].kind = "estimate" /\ kind = "receipt")
  /\ Called(a) \/ (c = bill[a].micro /\ v = bill[a].vmicro)
  /\ IF Sealed(a)
     THEN Retain(a, IF kind = "receipt" THEN c ELSE NoAmount) /\ UNCHANGED durable
     ELSE /\ bill' = Posted(bill, a, c, v)
          /\ fix' = [fix EXCEPT ![a] = [kind |-> kind, micro |-> c, vmicro |-> v]]
          /\ audit' = [audit EXCEPT ![a] = Append(@, Correction(a, c, v))]
          /\ UNCHANGED <<row, observed, cost, retained>>
  /\ UNCHANGED <<token, reach, sealed, up>>

-----------------------------------------------------------------------------
(* Voice maxima, visitor credits, retirement, crash and recovery *)

\* extendVoice(): cumulative maxima only grow, and only within the caps.
ExtendVoice(a, e) ==
  /\ up /\ ~Sealed(a)
  /\ a \in Voice /\ row[a].state = "dispatched"
  /\ LET max  == Larger(e.max, row[a].max)
         vmax == Larger(e.vmax, row[a].vmax)
     IN /\ CanAdmit(SessionOf[a], max - row[a].max, vmax - row[a].vmax)
        /\ row' = [row EXCEPT ![a].max = max, ![a].vmax = vmax]
  /\ UNCHANGED <<bill, observed, cost, fix, audit, token, reach, sealed, retained, up>>

\* retainVoiceExposure(): provider liability of a closing call is recorded even
\* above the caps.
RetainVoiceExposure(a) ==
  /\ up /\ ~Sealed(a)
  /\ a \in Voice /\ row[a].state = "dispatched"
  /\ row' = [row EXCEPT ![a].max = Larger(@, row[a].exposure),
                        ![a].vmax = Larger(@, row[a].vexposure),
                        ![a].closing = TRUE]
  /\ UNCHANGED <<bill, observed, cost, fix, audit, token, reach, sealed, retained, up>>

\* releaseUnderstandingCredits(), releaseReplyCredits()
ReleaseCredits(a) ==
  /\ up /\ ~Sealed(a)
  /\ LaneOf[a] \in {"understanding", "reaction"} /\ Settled(a)
  /\ bill' = [bill EXCEPT ![a].released = TRUE]
  /\ UNCHANGED <<row, observed, cost, fix, audit, token, reach, sealed, retained, up>>

\* sealRetirement(): once its deadline has passed, a session is sealed whatever
\* is still open.
Seal(s) ==
  /\ up
  /\ sealed' = sealed \cup {s}
  /\ UNCHANGED <<durable, token, reach, retained, up>>

Crash ==
  /\ up
  /\ up' = FALSE
  /\ token' = [a \in Attempts |-> "none"]
  /\ UNCHANGED <<durable, reach, sealed, retained>>

\* Seeded fault: recovery reads past the retirement fence.
RecoverableAll == {a \in Attempts : Open(a)}
Recoverable == {a \in Attempts : Open(a) /\ ~Sealed(a)}

\* Only a dispatch that is on record can have reached the provider.
\* Seeded faults: a claim already counts, or only a named generation does.
LiableOnceClaimed(a) == row[a].state \in {"claimed", "dispatched"}
LiableOnceNamed(a) == row[a].state = "dispatched" /\ (a \in CostBacked => cost[a].gen # NoGeneration)
Liable(a) == row[a].state = "dispatched" /\ (a \in CostBacked => cost[a].started)

Receipted(a) == a \in CostBacked /\ cost[a].charged # NoAmount

\* Seeded fault: no fallback for observed usage.
RecoveredMaximum(a) == IF Liable(a) THEN row[a].max ELSE 0
RecoveredMicro(a) ==
  IF ~Liable(a) THEN 0 ELSE IF Receipted(a) THEN cost[a].charged ELSE FullExposure(a)

RecoveredBill(a) ==
  [bill[a] EXCEPT
     !.outcome  = IF ~Liable(a) THEN "cancelled" ELSE IF Receipted(a) THEN "completed" ELSE "uncertain",
     !.micro    = RecoveredMicro(a),
     !.vmicro   = IF Liable(a) THEN Larger(row[a].vmax, row[a].vexposure) ELSE 0,
     !.released = (LaneOf[a] = "understanding")]

\* recover(), once at startup and before fresh work
Recover ==
  /\ ~up
  /\ up' = TRUE
  /\ row' = [a \in Attempts |-> IF a \in Recoverable THEN [row[a] EXCEPT !.state = "settled"] ELSE row[a]]
  /\ bill' = [a \in Attempts |-> IF a \in Recoverable THEN RecoveredBill(a) ELSE bill[a]]
  /\ UNCHANGED <<observed, cost, fix, audit, token, reach, sealed, retained>>

-----------------------------------------------------------------------------
Reported == Charges \cup {NoAmount}

\* The steps of one attempt's invocation, and of those that correct it later.
Attempt(a) ==
  \/ \E q \in Quotes : Admit(a, q)
  \/ Claim(a)
  \/ Consume(a)
  \/ MarkCostDispatch(a)
  \/ CallProvider(a)
  \/ \E o \in Reports, c \in Reported, e \in BOOLEAN : Settle(a, o, c, e)
  \/ \E o \in Reports, c \in Reported, v \in Charges, e \in BOOLEAN : SettleVoice(a, o, c, v, e)
  \/ \E o \in Reports, u, c \in Reported : SettleComponent(a, o, u, c)
  \/ \E c \in Charges : ObserveComponent(a, c)
  \/ \E g \in Generations \cup {NoGeneration}, c \in Reported : ObserveCost(a, g, c)
  \/ \E k \in {"estimate", "receipt"}, c \in Charges : ReconcileCost(a, k, c)
  \/ \E k \in {"estimate", "receipt"}, c \in Charges, v \in Charges : ReconcileVoice(a, k, c, v)
  \/ \E e \in Extensions : ExtendVoice(a, e)
  \/ RetainVoiceExposure(a)
  \/ ReleaseCredits(a)

Next ==
  \/ \E a \in Attempts : Attempt(a)
  \/ \E s \in Sessions : Seal(s)
  \/ Crash
  \/ Recover

Spec == Init /\ [][Next]_vars

-----------------------------------------------------------------------------
(* Properties *)

TypeOK ==
  /\ row \in [Attempts -> Row]
  /\ bill \in [Attempts -> Bill]
  /\ observed \in [Attempts -> Nat]
  /\ cost \in [Attempts -> Cost]
  /\ fix \in [Attempts -> Fix]
  /\ audit \in [Attempts -> Seq(CorrectionRecord)]
  /\ token \in [Attempts -> {"none", "held", "spent"}]
  /\ reach \in [Attempts -> {"unsent", "burned", "called"}]
  /\ sealed \subseteq Sessions
  /\ retained \in [Attempts -> MaybeAmount]
  /\ up \in BOOLEAN

\* What a provider or a closing call imposed on an attempt beyond its admission.
Surprised(a) ==
  \/ row[a].closing \/ audit[a] # <<>>
  \/ observed[a] > row[a].max \/ bill[a].micro > row[a].max \/ bill[a].vmicro > row[a].vmax

\* README.md: known usage settles at its actual cost, "including actual over-maximum
\* cost with an overrun flag".  Recovery of a recorded receipt leaves the flag off.
OverrunFlagged ==
  \A a \in Attempts : Settled(a) /\ bill[a].outcome = "completed" => bill[a].overrun = Overran(a, bill[a].micro)

\* However admissions, extensions, settlements, crashes and recoveries of
\* concurrent attempts interleave, a conversation is never committed beyond its
\* caps unless a provider charged more than was admitted (canAdmit is checked
\* and the row inserted in one transaction).
CapHolds ==
  \A s \in Sessions :
    (\A a \in Attempts : SessionOf[a] = s => ~Surprised(a))
      => Used(s) <= SessionCap /\ VisitorUsed(s) <= VisitorCap

\* Only a consumed dispatch claim can carry provider liability: an attempt whose
\* claim was never consumed costs nothing, not even after a crash, a recovery or
\* a late correction.
OnlyBurnedClaimsCost ==
  \A a \in Attempts : bill[a].micro > 0 \/ bill[a].vmicro > 0 => reach[a] # "unsent"

\* The append-only corrections reconstruct the current charge: they form a chain
\* that ends in the amounts on the row, and exist exactly when the row was
\* reconciled.
AuditReconstructs ==
  \A a \in Attempts :
    LET h == audit[a] IN
    /\ h # <<>> <=> fix[a].kind # "none"
    /\ h # <<>> => h[Len(h)].new = bill[a].micro /\ h[Len(h)].vnew = bill[a].vmicro
    /\ \A i \in 1 .. Len(h) - 1 : h[i].new = h[i + 1].old /\ h[i].vnew = h[i + 1].vold

\* A terminal cannot erase usage already observed of a component, on whichever
\* path the component is settled.
ObservedUsageKept ==
  \A a \in Component : Settled(a) /\ reach[a] # "unsent" => bill[a].micro >= observed[a]

\* An unconfirmed call or component keeps its whole maximum and exposure until
\* its provider's own account of it arrives.
UnconfirmedChargedInFull ==
  \A a \in Voice \cup Component :
    Settled(a) /\ bill[a].outcome = "uncertain" /\ fix[a].kind = "none" =>
      /\ bill[a].micro >= row[a].max /\ bill[a].micro >= row[a].exposure
      /\ bill[a].vmicro >= row[a].vmax /\ bill[a].vmicro >= row[a].vexposure

\* A crash never makes a call that reached its provider free: recovery charges
\* the receipt on record, or no less than what was admitted.
RecoveryKeepsLiability ==
  [][\A a \in Attempts : ~up /\ up' /\ a \in Recoverable /\ Called(a) =>
        /\ bill'[a].outcome # "cancelled"
        /\ bill'[a].micro = cost[a].charged \/ bill'[a].micro >= row[a].max]_vars

\* Behind the retirement fence nothing rewrites a session's billing, recovery
\* and late receipts included.
SealedBillingFrozen ==
  [][\A a \in Attempts : Sealed(a) =>
        /\ row'[a] = row[a] /\ bill'[a] = bill[a] /\ observed'[a] = observed[a]
        /\ cost'[a] = cost[a] /\ fix'[a] = fix[a] /\ audit'[a] = audit[a]]_vars

\* The first terminal is immutable, a receipt is posted once and for all, and an
\* estimate only gives way to a receipt or to a larger estimate.
ReceiptFinality ==
  [][\A a \in Attempts :
        /\ Settled(a) => row'[a].state = "settled" /\ bill'[a].outcome = bill[a].outcome
        /\ fix[a].kind = "receipt" => fix'[a] = fix[a] /\ bill'[a].micro = bill[a].micro
        /\ fix[a].kind = "estimate" => fix'[a].kind # "none"
        /\ fix[a].kind = "estimate" /\ fix'[a].kind = "estimate" => fix'[a].micro >= fix[a].micro]_vars

=============================================================================
