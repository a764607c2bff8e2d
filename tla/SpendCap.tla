------------------------------ MODULE SpendCap ------------------------------
(***************************************************************************)
(* The shared spend cap of one provider account                            *)
(* (packages/server/src/spend-cap.js, spend-cap-settings.js): a durable    *)
(* reservation per attempt, made before the request leaves and settled by  *)
(* the provider's charge, under a cap an operator may change.  A charge    *)
(* above its ceiling blocks the account for good.  purgeRetired            *)
(* (storage.js) folds the reservations of an erased session into totals.   *)
(***************************************************************************)
EXTENDS Naturals, FiniteSets, Functions

CONSTANTS
  Attempts,       \* the attempts that reserve on this account
  Sessions,       \* conversations
  SessionOf,      \* the conversation of an attempt
  Ceilings,       \* spend ceilings requests ask for
  Amounts,        \* charges the provider reports
  ConfiguredCap,  \* capMicro of the deployment
  Caps,           \* caps an operator asks for
  NoAmount        \* an absent amount

ASSUME CapAssumption ==
  /\ IsFiniteSet(Attempts)
  /\ SessionOf \in [Attempts -> Sessions]
  /\ Ceilings \subseteq Nat /\ Amounts \subseteq Nat /\ Caps \subseteq Nat
  /\ ConfiguredCap \in Nat /\ NoAmount \notin Nat

VARIABLES
  hold,       \* spend_reservations, one row per attempt
  gone,       \* retired_spend: the totals of purged rows
  stored,     \* spend_cap_settings.cap_micro
  live        \* startup recovery has finished

capVars == <<hold, gone, stored, live>>

Hold == [state : {"none", "reserved", "dispatched", "uncertain", "confirmed", "purged"},
         reserved : Nat, ceiling : Nat, actual : Nat \cup {NoAmount}, seen : Nat \cup {NoAmount}]

Totals == [spent : Nat, reserved : Nat, uncertain : Nat, breached : BOOLEAN]

NoHold == [state |-> "none", reserved |-> 0, ceiling |-> 0, actual |-> NoAmount, seen |-> NoAmount]

CapInit ==
  /\ hold = [a \in Attempts |-> NoHold]
  /\ gone = [spent |-> 0, reserved |-> 0, uncertain |-> 0, breached |-> FALSE]
  /\ stored = NoAmount
  /\ live = TRUE

-----------------------------------------------------------------------------
(* Reads *)

CapMicro == IF stored = NoAmount THEN ConfiguredCap ELSE stored

Exists(a)    == hold[a].state \notin {"none", "purged"}
Settled(a)   == Exists(a) /\ hold[a].actual # NoAmount
Unsettled(a) == Exists(a) /\ hold[a].actual = NoAmount
Uncertain(a) == Unsettled(a) /\ hold[a].state = "uncertain"
Held(a)      == Unsettled(a) /\ hold[a].state # "uncertain"

ReservedOf == [a \in Attempts |-> hold[a].reserved]
ActualOf   == [a \in Attempts |-> hold[a].actual]

SpentIn(S)     == SumFunctionOnSet(ActualOf, {a \in S : Settled(a)})
ReservedIn(S)  == SumFunctionOnSet(ReservedOf, {a \in S : Held(a)})
UncertainIn(S) == SumFunctionOnSet(ReservedOf, {a \in S : Uncertain(a)})

Spent     == SpentIn(Attempts) + gone.spent
Committed == Spent + ReservedIn(Attempts) + gone.reserved + UncertainIn(Attempts) + gone.uncertain

OverrunIn(S) == \E a \in S : Settled(a) /\ hold[a].actual > hold[a].ceiling
Overrun      == OverrunIn(Attempts) \/ gone.breached
Breached     == Overrun \/ Spent > CapMicro

-----------------------------------------------------------------------------
(* The life of a reservation *)

\* Seeded fault: uncertain holds are taken to be free.
FitsBesideConfirmed(amount) == Spent + ReservedIn(Attempts) + gone.reserved + amount <= CapMicro
Fits(amount) == Committed + amount <= CapMicro

\* Free models still hold one microdollar.
AmountHeld(ceiling) == IF ceiling = 0 THEN 1 ELSE ceiling

\* Nothing is reserved after a breach.
Reserve(a, ceiling) ==
  /\ hold[a].state = "none"
  /\ ~Breached /\ Fits(AmountHeld(ceiling))
  /\ hold' = [hold EXCEPT ![a] = [NoHold EXCEPT !.state = "reserved",
                                  !.reserved = AmountHeld(ceiling), !.ceiling = ceiling]]
  /\ UNCHANGED <<gone, stored, live>>

Dispatch(a) ==
  /\ Exists(a)
  /\ hold' = [hold EXCEPT ![a].state = IF @ = "reserved" THEN "dispatched" ELSE @]
  /\ UNCHANGED <<gone, stored, live>>

\* A charge seen before settlement; a settled hold only hears its own charge again.
Record(a, c) ==
  /\ Exists(a)
  /\ hold[a].actual \in {c, NoAmount}
  /\ hold' = [hold EXCEPT ![a].seen = c]
  /\ UNCHANGED <<gone, stored, live>>

\* Seeded fault: a later charge replaces the settled one.
Resettled(a, c) == [hold EXCEPT ![a].actual = c, ![a].state = "confirmed"]
Confirmed(a, c) == IF hold[a].actual = NoAmount
                   THEN [hold EXCEPT ![a].actual = c, ![a].state = "confirmed"] ELSE hold

\* The first charge settles the hold for good, above the ceiling or the cap too.
Settle(a, c) ==
  /\ Exists(a)
  /\ hold[a].actual \in {c, NoAmount}
  /\ hold' = Confirmed(a, c)
  /\ UNCHANGED <<gone, stored, live>>

\* retain() of budget.js: the charge of a sealed row, unless one is on record.
Retain(a, c) ==
  /\ hold' = IF Exists(a) THEN Confirmed(a, c) ELSE hold
  /\ UNCHANGED <<gone, stored, live>>

MarkUncertain(a) ==
  /\ Unsettled(a)
  /\ hold' = [hold EXCEPT ![a].state = "uncertain"]
  /\ UNCHANGED <<gone, stored, live>>

-----------------------------------------------------------------------------
(* Startup, policy and retirement *)

\* Startup settles a hold by what was seen, frees one that never left, and keeps
\* the rest.  Seeded fault: what left and was not seen counts as free.
RecoveredFree(h) == IF h.seen # NoAmount THEN h.seen ELSE 0
Recovered(h) == IF h.seen # NoAmount THEN h.seen ELSE IF h.state = "reserved" THEN 0 ELSE NoAmount

RecoverHold(a) ==
  /\ ~live
  /\ Unsettled(a)
  /\ hold' = IF Recovered(hold[a]) # NoAmount THEN Confirmed(a, Recovered(hold[a]))
             ELSE [hold EXCEPT ![a].state = "uncertain"]
  /\ UNCHANGED <<gone, stored, live>>

\* recover() has been through every row.
Resume ==
  /\ ~live
  /\ \A a \in Attempts : Unsettled(a) => Uncertain(a) /\ hold[a].seen = NoAmount
  /\ live' = TRUE
  /\ UNCHANGED <<hold, gone, stored>>

Stop ==
  /\ live' = FALSE
  /\ UNCHANGED <<hold, gone, stored>>

\* An operator cannot save a cap below what is committed, but may return to the
\* configured one whatever is committed.
SaveCap(c) ==
  /\ c >= Committed
  /\ stored' = c
  /\ UNCHANGED <<hold, gone, live>>

ResetCap ==
  /\ stored' = NoAmount
  /\ UNCHANGED <<hold, gone, live>>

\* Seeded fault: the breach is not carried over.
FoldForgiving(S) == [spent |-> gone.spent + SpentIn(S), reserved |-> gone.reserved + ReservedIn(S),
                     uncertain |-> gone.uncertain + UncertainIn(S), breached |-> gone.breached]
Fold(S) == [spent |-> gone.spent + SpentIn(S), reserved |-> gone.reserved + ReservedIn(S),
            uncertain |-> gone.uncertain + UncertainIn(S), breached |-> gone.breached \/ OverrunIn(S)]

\* purgeRetired(): the rows of an erased session are gone, their totals stay.
Purge(s) ==
  LET S == {a \in Attempts : SessionOf[a] = s} IN
  /\ gone' = Fold(S)
  /\ hold' = [a \in Attempts |-> IF a \in S THEN [NoHold EXCEPT !.state = "purged"] ELSE hold[a]]
  /\ UNCHANGED <<stored, live>>

CapNext ==
  \/ \E a \in Attempts :
       \/ live /\ \/ \E c \in Ceilings : Reserve(a, c)
                  \/ Dispatch(a) \/ MarkUncertain(a)
                  \/ \E c \in Amounts : Record(a, c) \/ Settle(a, c) \/ Retain(a, c)
       \/ RecoverHold(a)
  \/ Resume \/ Stop
  \/ live /\ \/ \E c \in Caps : SaveCap(c)
             \/ ResetCap
             \/ \E s \in Sessions : Purge(s)

CapSpec == CapInit /\ [][CapNext]_capVars

-----------------------------------------------------------------------------
(* Properties *)

\* Every row is well formed: a charge is there exactly when the row says it is
\* confirmed (recover and the retirement queries read the state, totals() the
\* charge), the amount held is the ceiling, with the floor of a free model, and
\* the totals of purged rows are amounts.
CapTypeOK ==
  /\ hold \in [Attempts -> Hold]
  /\ \A a \in Attempts :
       /\ Settled(a) <=> hold[a].state = "confirmed"
       /\ Exists(a) => hold[a].reserved = AmountHeld(hold[a].ceiling)
  /\ gone \in Totals
  /\ stored \in Nat \cup {NoAmount}
  /\ live \in BOOLEAN

\* While no charge exceeded its ceiling and the cap is one an operator saved,
\* spend and every open hold together stay within it, across restarts and purges
\* (reserve, saveSettings and purgeRetired agree on what is committed).
SavedCapHolds == ~Overrun /\ stored # NoAmount => Committed <= stored

\* A charge above its ceiling blocks the account for good: no later reservation
\* succeeds, not even after the session that overran is purged.
BreachLatches ==
  [][Overrun => /\ Overrun'
                /\ \A a \in Attempts : hold[a].state = "none" => hold'[a].state \in {"none", "purged"}]_capVars

\* A settled charge is final until its row is purged.
ActualFinal ==
  [][\A a \in Attempts : Settled(a) => hold'[a].actual = hold[a].actual \/ hold'[a].state = "purged"]_capVars

\* Recovery never frees a hold whose request may have left.
RecoveryKeepsHolds ==
  [][\A a \in Attempts : ~live /\ hold[a].state \in {"dispatched", "uncertain"} /\ hold[a].seen = NoAmount =>
        hold'[a].actual = hold[a].actual]_capVars
=============================================================================
