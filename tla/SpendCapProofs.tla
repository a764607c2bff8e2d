--------------------------- MODULE SpendCapProofs ---------------------------
(***************************************************************************)
(* Proofs about SpendCap for every set of attempts, sessions, charges and  *)
(* caps: every row stays well formed, a settled charge is final, a breach  *)
(* latches across purges and restarts, and recovery frees nothing that may *)
(* have left.                                                              *)
(***************************************************************************)
EXTENDS SpendCap, SumFacts, TLAPS

\* The confirmed states and the held amounts of CapTypeOK, row by row.
RowOK(h) ==
  /\ h \in Hold
  /\ h.state \notin {"none", "purged"} =>
       /\ h.actual # NoAmount <=> h.state = "confirmed"
       /\ h.reserved = AmountHeld(h.ceiling)
  /\ h.state = "confirmed" => h.actual # NoAmount

\* The type invariant, row by row.
LEMMA TypeByRow ==
  CapTypeOK <=> /\ hold \in [Attempts -> Hold]
                /\ \A a \in Attempts : RowOK(hold[a])
                /\ gone \in Totals
                /\ stored \in Nat \cup {NoAmount}
                /\ live \in BOOLEAN
BY DEF CapTypeOK, RowOK, Settled, Exists

\* An action that replaces one row by a well-formed one keeps the rows well formed.
LEMMA OneRow ==
  ASSUME NEW a \in Attempts, NEW h, RowOK(h), hold \in [Attempts -> Hold],
         \A b \in Attempts : RowOK(hold[b]),
         hold' = [hold EXCEPT ![a] = h]
  PROVE  hold' \in [Attempts -> Hold] /\ \A b \in Attempts : RowOK(hold'[b])
<1>1. h \in Hold
  BY DEF RowOK
<1>2. hold' \in [Attempts -> Hold]
  BY <1>1
<1>3. ASSUME NEW b \in Attempts PROVE RowOK(hold'[b])
  <2>1. CASE a = b
    <3>1. hold'[b] = h
      BY <2>1
    <3> QED  BY <3>1
  <2>2. CASE a # b
    <3>1. hold'[b] = hold[b]
      BY <2>2
    <3> QED  BY <3>1
  <2> QED  BY <2>1, <2>2
<1> QED  BY <1>2, <1>3

\* Recording a charge leaves every row well formed.
LEMMA ConfirmedRow ==
  ASSUME CapTypeOK, NEW a \in Attempts, Exists(a), NEW c \in Nat,
         hold' = Confirmed(a, c)
  PROVE  hold' \in [Attempts -> Hold] /\ \A b \in Attempts : RowOK(hold'[b])
<1>1. hold \in [Attempts -> Hold] /\ \A b \in Attempts : RowOK(hold[b])
  BY TypeByRow
<1>2. CASE hold[a].actual # NoAmount
  BY <1>1, <1>2 DEF Confirmed
<1>3. CASE hold[a].actual = NoAmount
  <2> DEFINE h == [hold[a] EXCEPT !.actual = c, !.state = "confirmed"]
  <2>1. RowOK(h)
    BY <1>1, CapAssumption DEF RowOK, Hold, Exists
  <2>2. hold' = [hold EXCEPT ![a] = h]
    BY <1>1, <1>3 DEF Confirmed
  <2> HIDE DEF h
  <2> QED  BY <1>1, <2>1, <2>2, OneRow
<1> QED  BY <1>2, <1>3

-----------------------------------------------------------------------------
(* What the rows commit *)

\* The amount a row commits of the account.
Load == [a \in Attempts |-> IF Settled(a) THEN hold[a].actual
                            ELSE IF Unsettled(a) THEN hold[a].reserved ELSE 0]

\* The amounts of a well-formed row.
LEMMA RowAmounts ==
  ASSUME CapTypeOK, NEW a \in Attempts
  PROVE  /\ hold[a].reserved \in Nat /\ hold[a].ceiling \in Nat
         /\ hold[a].actual \in Nat \cup {NoAmount} /\ hold[a].seen \in Nat \cup {NoAmount}
         /\ Settled(a) => hold[a].actual \in Nat
         /\ Load[a] \in Nat
<1>1. hold[a] \in Hold
  BY DEF CapTypeOK
<1>2. /\ hold[a].reserved \in Nat /\ hold[a].ceiling \in Nat
      /\ hold[a].actual \in Nat \cup {NoAmount} /\ hold[a].seen \in Nat \cup {NoAmount}
  BY <1>1 DEF Hold
<1> QED
  BY <1>2 DEF Load, Settled

\* Confirmed, held and uncertain amounts together are what the rows commit.
LEMMA LoadIn ==
  ASSUME CapTypeOK, NEW S \in SUBSET Attempts
  PROVE  /\ SpentIn(S) \in Nat /\ ReservedIn(S) \in Nat /\ UncertainIn(S) \in Nat
         /\ SpentIn(S) + ReservedIn(S) + UncertainIn(S) = SumFunctionOnSet(Load, S)
<1> DEFINE A == {a \in S : Settled(a)}
           H == {a \in S : Held(a)}
           U == {a \in S : Uncertain(a)}
           N == {a \in S : ~Exists(a)}
<1>1. S = ((A \cup H) \cup U) \cup N
  BY DEF Settled, Held, Uncertain, Unsettled
<1>2. A \cap H = {} /\ (A \cup H) \cap U = {} /\ ((A \cup H) \cup U) \cap N = {}
  BY DEF Settled, Held, Uncertain, Unsettled
<1>3. IsFiniteSet(S)
  BY CapAssumption, FS_Subset
<1>4. IsFiniteSet(A) /\ IsFiniteSet(H) /\ IsFiniteSet(U) /\ IsFiniteSet(N)
      /\ IsFiniteSet(A \cup H) /\ IsFiniteSet((A \cup H) \cup U)
  BY <1>3, FS_Subset
<1>5. \A x \in S : Load[x] \in Nat
  BY RowAmounts
<1>6. \A x \in A : Load[x] = ActualOf[x] /\ ActualOf[x] \in Nat
  BY RowAmounts DEF Load, ActualOf
<1>7. \A x \in H : Load[x] = ReservedOf[x] /\ ReservedOf[x] \in Nat
  BY RowAmounts DEF Load, ReservedOf, Held, Unsettled, Settled
<1>8. \A x \in U : Load[x] = ReservedOf[x] /\ ReservedOf[x] \in Nat
  BY RowAmounts DEF Load, ReservedOf, Uncertain, Unsettled, Settled
<1>9. \A x \in N : Load[x] = 0
  BY DEF Load, Unsettled, Settled
<1>10. SpentIn(S) = SumFunctionOnSet(ActualOf, A) /\ ReservedIn(S) = SumFunctionOnSet(ReservedOf, H)
       /\ UncertainIn(S) = SumFunctionOnSet(ReservedOf, U)
  BY DEF SpentIn, ReservedIn, UncertainIn
<1>11. A \subseteq S /\ H \subseteq S /\ U \subseteq S /\ N \subseteq S
  OBVIOUS
<1> HIDE DEF A, H, U, N
<1>12. SpentIn(S) = SumFunctionOnSet(Load, A) /\ SpentIn(S) \in Nat
  BY <1>4, <1>6, <1>10, SumSame, SumType
<1>13. ReservedIn(S) = SumFunctionOnSet(Load, H) /\ ReservedIn(S) \in Nat
  BY <1>4, <1>7, <1>10, SumSame, SumType
<1>14. UncertainIn(S) = SumFunctionOnSet(Load, U) /\ UncertainIn(S) \in Nat
  BY <1>4, <1>8, <1>10, SumSame, SumType
<1>15. SumFunctionOnSet(Load, N) = 0
  BY <1>4, <1>9, SumZero
<1>16. SumFunctionOnSet(Load, A \cup H) = SpentIn(S) + ReservedIn(S)
  BY <1>2, <1>4, <1>5, <1>11, <1>12, <1>13, SumUnion
<1>17. SumFunctionOnSet(Load, (A \cup H) \cup U) = SpentIn(S) + ReservedIn(S) + UncertainIn(S)
  BY <1>2, <1>4, <1>5, <1>11, <1>14, <1>16, SumUnion
<1>18. SumFunctionOnSet(Load, S) = SumFunctionOnSet(Load, (A \cup H) \cup U) + 0
  BY <1>1, <1>2, <1>4, <1>5, <1>11, <1>15, SumUnion
<1> QED
  BY <1>12, <1>13, <1>14, <1>17, <1>18

\* What the account has committed: its rows, and the totals of purged ones.
Gone == gone.spent + gone.reserved + gone.uncertain

\* What is committed is the load of the rows on record plus the folded totals.
LEMMA CommittedIs ==
  CapTypeOK => /\ Committed \in Nat
               /\ Gone \in Nat
               /\ SumFunctionOnSet(Load, Attempts) \in Nat
               /\ Committed = SumFunctionOnSet(Load, Attempts) + Gone
<1> SUFFICES ASSUME CapTypeOK
             PROVE  /\ Committed \in Nat
                    /\ Gone \in Nat
                    /\ SumFunctionOnSet(Load, Attempts) \in Nat
                    /\ Committed = SumFunctionOnSet(Load, Attempts) + Gone
  OBVIOUS
<1>1. Attempts \in SUBSET Attempts
  OBVIOUS
<1>2. gone.spent \in Nat /\ gone.reserved \in Nat /\ gone.uncertain \in Nat
  BY DEF CapTypeOK, Totals
<1> QED
  BY <1>1, <1>2, LoadIn DEF Committed, Spent, Gone

-----------------------------------------------------------------------------
\* The empty account is well formed.
LEMMA InitType == CapInit => CapTypeOK
BY CapAssumption DEF CapInit, CapTypeOK, NoHold, Hold, Totals, Settled, Exists

\* Each step keeps the rows well formed.
LEMMA StepType == ASSUME CapTypeOK, [CapNext]_capVars PROVE CapTypeOK'
<1>0. /\ NoAmount \notin Nat /\ Ceilings \subseteq Nat /\ Amounts \subseteq Nat /\ Caps \subseteq Nat
      /\ hold \in [Attempts -> Hold]
      /\ \A b \in Attempts : RowOK(hold[b])
      /\ gone \in Totals /\ stored \in Nat \cup {NoAmount} /\ live \in BOOLEAN
  BY TypeByRow, CapAssumption
<1> DEFINE RowsOK == hold \in [Attempts -> Hold] /\ \A b \in Attempts : RowOK(hold[b])
           RestOK == gone \in Totals /\ stored \in Nat \cup {NoAmount} /\ live \in BOOLEAN
<1>q. (RowsOK /\ RestOK)' => CapTypeOK'
  BY DEF RowOK, CapTypeOK, Settled, Exists
<1>1. ASSUME NEW a \in Attempts, NEW c \in Ceilings, Reserve(a, c) PROVE (RowsOK /\ RestOK)'
  <2> DEFINE h == [NoHold EXCEPT !.state = "reserved", !.reserved = AmountHeld(c), !.ceiling = c]
  <2>1. RowOK(h)
    BY <1>0 DEF RowOK, Hold, NoHold, AmountHeld
  <2>2. hold' = [hold EXCEPT ![a] = h] /\ UNCHANGED <<gone, stored, live>>
    BY <1>1 DEF Reserve
  <2> HIDE DEF h
  <2> QED  BY <1>0, <2>1, <2>2, OneRow
<1>2. ASSUME NEW a \in Attempts, Dispatch(a) PROVE (RowsOK /\ RestOK)'
  <2> DEFINE h == [hold[a] EXCEPT !.state = IF @ = "reserved" THEN "dispatched" ELSE @]
  <2>1. RowOK(h)
    BY <1>0, <1>2 DEF RowOK, Hold, Dispatch, Exists
  <2>2. hold' = [hold EXCEPT ![a] = h] /\ UNCHANGED <<gone, stored, live>>
    BY <1>0, <1>2 DEF Dispatch
  <2> HIDE DEF h
  <2> QED  BY <1>0, <2>1, <2>2, OneRow
<1>3. ASSUME NEW a \in Attempts, MarkUncertain(a) PROVE (RowsOK /\ RestOK)'
  <2> DEFINE h == [hold[a] EXCEPT !.state = "uncertain"]
  <2>1. RowOK(h)
    BY <1>0, <1>3 DEF RowOK, Hold, MarkUncertain, Unsettled, Exists
  <2>2. hold' = [hold EXCEPT ![a] = h] /\ UNCHANGED <<gone, stored, live>>
    BY <1>0, <1>3 DEF MarkUncertain
  <2> HIDE DEF h
  <2> QED  BY <1>0, <2>1, <2>2, OneRow
<1>4. ASSUME NEW a \in Attempts, NEW c \in Amounts, Record(a, c) PROVE (RowsOK /\ RestOK)'
  <2> DEFINE h == [hold[a] EXCEPT !.seen = c]
  <2>1. RowOK(h)
    BY <1>0 DEF RowOK, Hold
  <2>2. hold' = [hold EXCEPT ![a] = h] /\ UNCHANGED <<gone, stored, live>>
    BY <1>0, <1>4 DEF Record
  <2> HIDE DEF h
  <2> QED  BY <1>0, <2>1, <2>2, OneRow
<1>5. ASSUME NEW a \in Attempts, NEW c \in Amounts, Settle(a, c) \/ Retain(a, c) PROVE (RowsOK /\ RestOK)'
  <2>1. UNCHANGED <<gone, stored, live>> /\ (hold' = hold \/ (Exists(a) /\ hold' = Confirmed(a, c)))
    BY <1>5 DEF Settle, Retain
  <2> QED  BY <1>0, <2>1, ConfirmedRow
<1>6. ASSUME NEW a \in Attempts, RecoverHold(a) PROVE (RowsOK /\ RestOK)'
  <2>1. UNCHANGED <<gone, stored, live>> /\ Exists(a)
    BY <1>6 DEF RecoverHold, Unsettled
  <2>2. CASE Recovered(hold[a]) # NoAmount
    <3>1. Recovered(hold[a]) \in Nat
      BY <1>0, <2>2 DEF Recovered, Hold
    <3>2. hold' = Confirmed(a, Recovered(hold[a]))
      BY <1>6, <2>2 DEF RecoverHold
    <3> QED  BY <1>0, <2>1, <3>1, <3>2, ConfirmedRow
  <2>3. CASE Recovered(hold[a]) = NoAmount
    <3> DEFINE h == [hold[a] EXCEPT !.state = "uncertain"]
    <3>1. RowOK(h)
      BY <1>0, <1>6 DEF RowOK, Hold, RecoverHold, Unsettled, Exists
    <3>2. hold' = [hold EXCEPT ![a] = h]
      BY <1>0, <1>6, <2>3 DEF RecoverHold
    <3> HIDE DEF h
    <3> QED  BY <1>0, <2>1, <3>1, <3>2, OneRow
  <2> QED  BY <2>2, <2>3
<1>7. ASSUME Resume \/ Stop \/ ResetCap \/ UNCHANGED capVars PROVE (RowsOK /\ RestOK)'
  <2>1. UNCHANGED <<hold, gone>> /\ stored' \in {stored, NoAmount} /\ live' \in {live, TRUE, FALSE}
    BY <1>7 DEF Resume, Stop, ResetCap, capVars
  <2> QED  BY <1>0, <2>1
<1>8. ASSUME NEW c \in Caps, SaveCap(c) PROVE (RowsOK /\ RestOK)'
  BY <1>0, <1>8 DEF SaveCap
<1>9. ASSUME NEW s \in Sessions, Purge(s) PROVE (RowsOK /\ RestOK)'
  <2> DEFINE S == {a \in Attempts : SessionOf[a] = s}
             purged == [NoHold EXCEPT !.state = "purged"]
  <2>1. RowOK(purged)
    BY <1>0 DEF RowOK, Hold, NoHold
  <2>2. hold' = [a \in Attempts |-> IF a \in S THEN purged ELSE hold[a]] /\ UNCHANGED <<stored, live>>
    BY <1>9 DEF Purge
  <2>3. gone' \in Totals
    <3>1. SpentIn(S) \in Nat /\ ReservedIn(S) \in Nat /\ UncertainIn(S) \in Nat
      BY LoadIn
    <3>2. gone' = Fold(S)
      BY <1>9 DEF Purge
    <3> HIDE DEF S
    <3> QED  BY <1>0, <3>1, <3>2 DEF Fold, Totals, OverrunIn
  <2>4. \A b \in Attempts : RowOK(hold'[b])
    <3> HIDE DEF purged
    <3> SUFFICES ASSUME NEW b \in Attempts PROVE RowOK(hold'[b])
      OBVIOUS
    <3>1. hold'[b] = purged \/ hold'[b] = hold[b]
      BY <2>2
    <3> QED  BY <1>0, <2>1, <3>1
  <2>5. hold' \in [Attempts -> Hold]
    <3>1. purged \in Hold
      BY <2>1 DEF RowOK
    <3> HIDE DEF purged
    <3> QED  BY <1>0, <2>2, <3>1
  <2> QED  BY <1>0, <2>2, <2>3, <2>4, <2>5
<1> HIDE DEF RowsOK, RestOK
<1> QED  BY <1>1, <1>2, <1>3, <1>4, <1>5, <1>6, <1>7, <1>8, <1>9, <1>q DEF CapNext

\* Every row of the account is well formed, for ever.
THEOREM RowsWellFormed == CapSpec => []CapTypeOK
<1>1. CapInit => CapTypeOK
  BY InitType
<1>2. CapTypeOK /\ [CapNext]_capVars => CapTypeOK'
  BY StepType
<1> QED  BY <1>1, <1>2, PTL DEF CapSpec

-----------------------------------------------------------------------------
(* What one step may do to a row *)

\* The charge of a settled row survives each step but the purge of its session.
LEMMA SettledKept ==
  ASSUME CapTypeOK, [CapNext]_capVars, NEW a \in Attempts, Settled(a)
  PROVE  \/ hold'[a].actual = hold[a].actual /\ hold'[a].ceiling = hold[a].ceiling
            /\ hold'[a].state \notin {"none", "purged"}
         \/ \E s \in Sessions : Purge(s) /\ SessionOf[a] = s
<1>0. hold \in [Attempts -> Hold] /\ Exists(a) /\ hold[a].actual # NoAmount /\ hold[a].state = "confirmed"
  BY DEF CapTypeOK, Settled
<1> DEFINE Kept == hold'[a].actual = hold[a].actual /\ hold'[a].ceiling = hold[a].ceiling
                   /\ hold'[a].state \notin {"none", "purged"}
<1>1. ASSUME NEW b \in Attempts, NEW c \in Ceilings, Reserve(b, c) PROVE Kept
  BY <1>0, <1>1 DEF Reserve
<1>2. ASSUME NEW b \in Attempts, Dispatch(b) \/ MarkUncertain(b) PROVE Kept
  BY <1>0, <1>2 DEF Dispatch, MarkUncertain, Unsettled, Exists, Hold
<1>3. ASSUME NEW b \in Attempts, NEW c \in Amounts, Record(b, c) PROVE Kept
  BY <1>0, <1>3 DEF Record, Exists, Hold
<1>4. ASSUME NEW b \in Attempts, NEW c, hold' = Confirmed(b, c) PROVE Kept
  BY <1>0, <1>4 DEF Confirmed, Exists, Hold
<1>5. ASSUME NEW b \in Attempts, NEW c \in Amounts, Settle(b, c) \/ Retain(b, c) PROVE Kept
  <2>1. hold' = hold \/ hold' = Confirmed(b, c)
    BY <1>5 DEF Settle, Retain
  <2> QED  BY <1>0, <1>4, <2>1
<1>6. ASSUME NEW b \in Attempts, RecoverHold(b) PROVE Kept
  <2>1. \/ hold' = Confirmed(b, Recovered(hold[b]))
        \/ a # b /\ hold' = [hold EXCEPT ![b].state = "uncertain"]
    BY <1>0, <1>6 DEF RecoverHold, Unsettled
  <2>2. CASE a # b /\ hold' = [hold EXCEPT ![b].state = "uncertain"]
    BY <1>0, <2>2
  <2> QED  BY <1>0, <1>4, <2>1, <2>2
<1>7. ASSUME UNCHANGED hold PROVE Kept
  BY <1>0, <1>7
<1>8. ASSUME Resume \/ Stop \/ ResetCap \/ UNCHANGED capVars \/ \E c \in Caps : SaveCap(c) PROVE Kept
  BY <1>7, <1>8 DEF Resume, Stop, ResetCap, SaveCap, capVars
<1>9. ASSUME NEW s \in Sessions, Purge(s) PROVE Kept \/ SessionOf[a] = s
  BY <1>0, <1>9 DEF Purge
<1> HIDE DEF Kept
<1>10. Kept \/ \E s \in Sessions : Purge(s) /\ SessionOf[a] = s
  BY <1>1, <1>2, <1>3, <1>5, <1>6, <1>8, <1>9 DEF CapNext
<1> QED  BY <1>10 DEF Kept

\* A settled charge is final until its row is purged.
THEOREM ChargesFinal == CapSpec => ActualFinal
<1>1. CapTypeOK /\ [CapNext]_capVars =>
        [\A a \in Attempts : Settled(a) => hold'[a].actual = hold[a].actual \/ hold'[a].state = "purged"]_capVars
  <2> SUFFICES ASSUME CapTypeOK, [CapNext]_capVars, NEW a \in Attempts, Settled(a)
               PROVE  hold'[a].actual = hold[a].actual \/ hold'[a].state = "purged"
    OBVIOUS
  <2>1. ASSUME NEW s \in Sessions, Purge(s), SessionOf[a] = s PROVE hold'[a].state = "purged"
    BY <2>1 DEF Purge, NoHold
  <2> QED  BY <2>1, SettledKept
<1> QED  BY <1>1, RowsWellFormed, PTL DEF CapSpec, ActualFinal

\* An overrun stays on record: a charge is final, and a purge folds the overrun with its row.
LEMMA BreachKept == ASSUME CapTypeOK, [CapNext]_capVars, Overrun PROVE Overrun'
<1>0. gone \in Totals
  BY DEF CapTypeOK
<1>1. CASE gone.breached
  <2>1. ASSUME NEW s \in Sessions, Purge(s) PROVE gone'.breached
    BY <1>1, <2>1 DEF Purge, Fold
  <2>2. (\A s \in Sessions : ~Purge(s)) => gone' = gone
    BY DEF CapNext, capVars, Reserve, Dispatch, MarkUncertain, Record, Settle, Retain, RecoverHold,
           Resume, Stop, SaveCap, ResetCap
  <2> QED  BY <1>1, <2>1, <2>2 DEF Overrun
<1>2. ASSUME NEW a \in Attempts, Settled(a), hold[a].actual > hold[a].ceiling PROVE Overrun'
  <2>1. ASSUME NEW s \in Sessions, Purge(s), SessionOf[a] = s PROVE gone'.breached
    BY <1>2, <2>1 DEF Purge, Fold, OverrunIn
  <2>2. ASSUME hold'[a].actual = hold[a].actual, hold'[a].ceiling = hold[a].ceiling,
               hold'[a].state \notin {"none", "purged"}
        PROVE  Overrun'
    BY <1>2, <2>2 DEF Overrun, OverrunIn, Settled, Exists
  <2> QED  BY <1>2, <2>1, <2>2, SettledKept DEF Overrun
<1> QED  BY <1>1, <1>2 DEF Overrun, OverrunIn

\* Once a charge has exceeded its ceiling the account takes no reservation again.
THEOREM BreachIsFinal == CapSpec => BreachLatches
<1> DEFINE Latched == /\ Overrun'
                      /\ \A a \in Attempts : hold[a].state = "none" => hold'[a].state \in {"none", "purged"}
<1>1. CapTypeOK /\ [CapNext]_capVars => [Overrun => Latched]_capVars
  <2> SUFFICES ASSUME CapTypeOK, [CapNext]_capVars, Overrun, NEW a \in Attempts, hold[a].state = "none"
               PROVE  hold'[a].state \in {"none", "purged"}
    BY BreachKept
  <2>0. hold \in [Attempts -> Hold] /\ ~Exists(a)
    BY DEF CapTypeOK, Exists
  <2>1. ASSUME NEW b \in Attempts, NEW c, hold' = Confirmed(b, c), Exists(b) PROVE hold'[a] = hold[a]
    BY <2>0, <2>1 DEF Confirmed
  <2>2. ASSUME NEW b \in Attempts, NEW c \in Amounts, Settle(b, c) \/ Retain(b, c) PROVE hold'[a] = hold[a]
    <3>1. hold' = hold \/ (Exists(b) /\ hold' = Confirmed(b, c))
      BY <2>2 DEF Settle, Retain
    <3> QED  BY <2>1, <3>1
  <2>3. ASSUME NEW b \in Attempts, RecoverHold(b) PROVE hold'[a] = hold[a]
    <3>1. Exists(b)
      BY <2>3 DEF RecoverHold, Unsettled
    <3>2. hold' = Confirmed(b, Recovered(hold[b])) \/ hold' = [hold EXCEPT ![b].state = "uncertain"]
      BY <2>3 DEF RecoverHold
    <3> QED  BY <2>0, <2>1, <3>1, <3>2
  <2>4. ASSUME NEW b \in Attempts, NEW c \in Ceilings, Reserve(b, c) PROVE FALSE
    BY <2>4 DEF Reserve, Breached
  <2>5. ASSUME NEW b \in Attempts, Dispatch(b) \/ MarkUncertain(b) PROVE hold'[a] = hold[a]
    BY <2>0, <2>5 DEF Dispatch, MarkUncertain, Unsettled
  <2>6. ASSUME NEW b \in Attempts, NEW c \in Amounts, Record(b, c) PROVE hold'[a] = hold[a]
    BY <2>0, <2>6 DEF Record
  <2>7. ASSUME NEW s \in Sessions, Purge(s) PROVE hold'[a].state \in {"none", "purged"}
    BY <2>0, <2>7 DEF Purge, NoHold
  <2>8. CASE Resume \/ Stop \/ ResetCap \/ UNCHANGED capVars \/ \E c \in Caps : SaveCap(c)
    BY <2>8 DEF Resume, Stop, ResetCap, SaveCap, capVars
  <2> QED  BY <2>2, <2>3, <2>4, <2>5, <2>6, <2>7, <2>8 DEF CapNext
<1> QED  BY <1>1, RowsWellFormed, PTL DEF CapSpec, BreachLatches

\* Recovery never frees a hold whose request may have left.
THEOREM RecoveryKeeps == CapSpec => RecoveryKeepsHolds
<1> DEFINE Kept(a) == ~live /\ hold[a].state \in {"dispatched", "uncertain"} /\ hold[a].seen = NoAmount =>
                        hold'[a].actual = hold[a].actual
<1>1. CapTypeOK /\ [CapNext]_capVars => [\A a \in Attempts : Kept(a)]_capVars
  <2> SUFFICES ASSUME CapTypeOK, [CapNext]_capVars, NEW a \in Attempts, ~live,
                      hold[a].state \in {"dispatched", "uncertain"}, hold[a].seen = NoAmount
               PROVE  hold'[a].actual = hold[a].actual
    OBVIOUS
  <2>0. hold \in [Attempts -> Hold]
    BY DEF CapTypeOK
  <2>1. ASSUME NEW b \in Attempts, RecoverHold(b) PROVE hold'[a].actual = hold[a].actual
    <3>1. CASE a # b
      BY <2>0, <2>1, <3>1 DEF RecoverHold, Confirmed
    <3>2. CASE a = b
      <4>1. Recovered(hold[b]) = NoAmount
        BY <3>2 DEF Recovered
      <4> QED  BY <2>0, <2>1, <3>2, <4>1 DEF RecoverHold, Hold
    <3> QED  BY <3>1, <3>2
  <2>2. CASE Resume \/ Stop \/ UNCHANGED capVars
    BY <2>2 DEF Resume, Stop, capVars
  <2> QED  BY <2>1, <2>2 DEF CapNext
<1> QED  BY <1>1, RowsWellFormed, PTL DEF CapSpec, RecoveryKeepsHolds

-----------------------------------------------------------------------------
(* The cap an operator saved *)

\* What a row commits is an amount.
Loads == \A x \in Attempts : Load[x] \in Nat

\* The load of each row is a natural number.
LEMMA LoadType == CapTypeOK => Loads
BY RowAmounts DEF Loads

\* When no row commits more and the totals stay, no more is committed.
LEMMA CommittedNoMore ==
  ASSUME CapTypeOK, CapTypeOK', \A a \in Attempts : Load'[a] <= Load[a], gone' = gone
  PROVE  Committed' <= Committed
<1>1. (\A x \in Attempts : Load[x] \in Nat) /\ (\A x \in Attempts : Load[x] \in Nat)'
  <2>1. Loads /\ Loads'
    BY LoadType, PTL
  <2> QED
    BY <2>1 DEF Loads
<1>2. SumFunctionOnSet(Load', Attempts) <= SumFunctionOnSet(Load, Attempts)
  BY <1>1, CapAssumption, SumMonotone
<1>3. Gone' = Gone
  BY DEF Gone
<1>4. (Committed = SumFunctionOnSet(Load, Attempts) + Gone)
      /\ (Committed = SumFunctionOnSet(Load, Attempts) + Gone)'
  BY CommittedIs, PTL
<1>5. Gone \in Nat /\ SumFunctionOnSet(Load, Attempts) \in Nat /\ (SumFunctionOnSet(Load, Attempts) \in Nat)'
  BY CommittedIs, PTL
<1> QED
  BY <1>2, <1>3, <1>4, <1>5

\* A row that settles within its ceiling commits no more than it held.
LEMMA LoadConfirmed ==
  ASSUME CapTypeOK, CapTypeOK', ~Overrun', NEW a \in Attempts, Exists(a), NEW c \in Nat,
         hold' = Confirmed(a, c), NEW b \in Attempts
  PROVE  Load'[b] <= Load[b]
<1>0. Load[b] \in Nat /\ hold[a].reserved \in Nat /\ hold[a].ceiling \in Nat
  BY RowAmounts
<1>1. CASE hold' = hold
  <2>1. Load'[b] = Load[b]
    BY <1>1 DEF Load, Settled, Unsettled, Exists
  <2> QED
    BY <1>0, <2>1
<1>2. CASE hold[a].actual = NoAmount
  <2>1. hold \in [Attempts -> Hold]
    BY DEF CapTypeOK
  <2>2. hold' = [hold EXCEPT ![a].actual = c, ![a].state = "confirmed"]
    BY <1>2 DEF Confirmed
  <2>3. CASE a # b
    <3>1. Load'[b] = Load[b]
      BY <2>1, <2>2, <2>3 DEF Load, Settled, Unsettled, Exists
    <3> QED
      BY <1>0, <3>1
  <2>4. CASE a = b
    <3>1. hold'[a].actual = c /\ hold'[a].state = "confirmed" /\ hold'[a].ceiling = hold[a].ceiling
      BY <2>1, <2>2 DEF Hold
    <3>2. Settled(a)' /\ Load'[a] = c
      BY <3>1, CapAssumption DEF Load, Settled, Exists
    <3>3. c <= hold[a].ceiling
      BY <1>0, <3>1, <3>2 DEF Overrun, OverrunIn
    <3>4. hold[a].reserved = AmountHeld(hold[a].ceiling)
      BY DEF CapTypeOK
    <3>5. hold[a].ceiling <= hold[a].reserved
      BY <1>0, <3>4 DEF AmountHeld
    <3>6. Load[a] = hold[a].reserved
      BY <1>2 DEF Load, Settled, Unsettled
    <3> QED
      BY <1>0, <2>4, <3>2, <3>3, <3>5, <3>6
  <2> QED
    BY <2>3, <2>4
<1> QED
  BY <1>1, <1>2 DEF Confirmed

\* A step that changes neither a row's charge nor the amount it holds, nor takes it
\* away, commits as much.
LEMMA LoadKept ==
  ASSUME NEW b \in Attempts, Exists(b)' <=> Exists(b),
         hold'[b].actual = hold[b].actual, hold'[b].reserved = hold[b].reserved
  PROVE  Load'[b] = Load[b]
BY DEF Load, Settled, Unsettled, Exists

\* A reservation adds what it holds.
LEMMA CommittedByReserve ==
  ASSUME CapTypeOK, CapTypeOK', NEW a \in Attempts, NEW c \in Ceilings, Reserve(a, c)
  PROVE  Committed' = Committed + AmountHeld(c)
<1>0. hold \in [Attempts -> Hold] /\ AmountHeld(c) \in Nat
  BY CapAssumption DEF CapTypeOK, AmountHeld
<1>1. (\A x \in Attempts : Load[x] \in Nat) /\ (\A x \in Attempts : Load[x] \in Nat)'
  <2>1. Loads /\ Loads'
    BY LoadType, PTL
  <2> QED
    BY <2>1 DEF Loads
<1>2. \A x \in Attempts : a # x => Load[x] = Load'[x]
  BY <1>0 DEF Reserve, Load, Settled, Unsettled, Exists
<1>3. Load[a] = 0
  BY DEF Reserve, Load, Settled, Unsettled, Exists
<1>4. Load'[a] = AmountHeld(c)
  BY <1>0 DEF Reserve, Load, Settled, Unsettled, Exists, NoHold
<1>5. SumFunctionOnSet(Load, Attempts) + Load'[a] = SumFunctionOnSet(Load', Attempts) + Load[a]
  BY <1>1, <1>2, CapAssumption, SumChange
<1>6. Gone' = Gone
  BY DEF Gone, Reserve
<1>7. (Committed = SumFunctionOnSet(Load, Attempts) + Gone)
      /\ (Committed = SumFunctionOnSet(Load, Attempts) + Gone)'
  BY CommittedIs, PTL
<1>8. Gone \in Nat /\ SumFunctionOnSet(Load, Attempts) \in Nat /\ (SumFunctionOnSet(Load, Attempts) \in Nat)'
  BY CommittedIs, PTL
<1> QED
  BY <1>0, <1>3, <1>4, <1>5, <1>6, <1>7, <1>8

\* A purge moves what its rows committed into the totals.
LEMMA CommittedByPurge ==
  ASSUME CapTypeOK, CapTypeOK', NEW s \in Sessions, Purge(s)
  PROVE  Committed' = Committed
<1> DEFINE S == {a \in Attempts : SessionOf[a] = s}
           T == Attempts \ S
<1>1. (\A x \in Attempts : Load[x] \in Nat) /\ (\A x \in Attempts : Load[x] \in Nat)'
  <2>1. Loads /\ Loads'
    BY LoadType, PTL
  <2> QED
    BY <2>1 DEF Loads
<1>2. \A x \in S : Load'[x] = 0
  BY DEF Purge, Load, Settled, Unsettled, Exists, NoHold
<1>3. \A x \in T : Load'[x] = Load[x]
  BY DEF Purge, Load, Settled, Unsettled, Exists
<1>4. S \cup T = Attempts /\ S \cap T = {} /\ IsFiniteSet(S) /\ IsFiniteSet(T) /\ S \in SUBSET Attempts
  BY CapAssumption, FS_Subset
<1>5. gone' = Fold(S)
  BY DEF Purge
<1> HIDE DEF S, T
<1>6. SumFunctionOnSet(Load, Attempts) = SumFunctionOnSet(Load, S) + SumFunctionOnSet(Load, T)
  BY <1>1, <1>4, SumUnion
<1>7. SumFunctionOnSet(Load', Attempts) = SumFunctionOnSet(Load', S) + SumFunctionOnSet(Load', T)
  BY <1>1, <1>4, SumUnion
<1>8. SumFunctionOnSet(Load', S) = 0 /\ SumFunctionOnSet(Load', T) = SumFunctionOnSet(Load, T)
  BY <1>2, <1>3, <1>4, SumZero, SumSame
<1>9. SumFunctionOnSet(Load, T) \in Nat
  BY <1>1, <1>4, SumType
<1>10. /\ SpentIn(S) \in Nat /\ ReservedIn(S) \in Nat /\ UncertainIn(S) \in Nat
       /\ SpentIn(S) + ReservedIn(S) + UncertainIn(S) = SumFunctionOnSet(Load, S)
  BY <1>4, LoadIn
<1>11. gone.spent \in Nat /\ gone.reserved \in Nat /\ gone.uncertain \in Nat
  BY DEF CapTypeOK, Totals
<1>12. Gone' = Gone + SumFunctionOnSet(Load, S)
  BY <1>5, <1>10, <1>11 DEF Gone, Fold
<1>13. (Committed = SumFunctionOnSet(Load, Attempts) + Gone)
       /\ (Committed = SumFunctionOnSet(Load, Attempts) + Gone)'
  BY CommittedIs, PTL
<1>14. Gone \in Nat /\ SumFunctionOnSet(Load, S) \in Nat
  BY <1>10, <1>11 DEF Gone
<1> QED
  BY <1>6, <1>7, <1>8, <1>9, <1>12, <1>13, <1>14

\* While no charge exceeds its ceiling, only a reservation commits more.
LEMMA CommittedStep ==
  ASSUME CapTypeOK, CapTypeOK', [CapNext]_capVars, ~Overrun'
  PROVE  \/ Committed' <= Committed
         \/ \E a \in Attempts, c \in Ceilings : Reserve(a, c)
<1>0. hold \in [Attempts -> Hold] /\ \A x \in Attempts : Load[x] \in Nat
  BY LoadType DEF Loads, CapTypeOK
<1>1. ASSUME \A b \in Attempts : Load'[b] = Load[b], gone' = gone PROVE Committed' <= Committed
  BY <1>0, <1>1, CommittedNoMore
<1>2. ASSUME NEW a \in Attempts, Dispatch(a) \/ MarkUncertain(a) \/ (\E c \in Amounts : Record(a, c))
      PROVE  Committed' <= Committed
  <2>1. gone' = gone
    BY <1>2 DEF Dispatch, MarkUncertain, Record
  <2>2. ASSUME NEW b \in Attempts PROVE Load'[b] = Load[b]
    <3>1. Exists(b)' <=> Exists(b)
      BY <1>0, <1>2 DEF Dispatch, MarkUncertain, Record, Exists, Unsettled, Hold
    <3>2. hold'[b].actual = hold[b].actual /\ hold'[b].reserved = hold[b].reserved
      BY <1>0, <1>2 DEF Dispatch, MarkUncertain, Record, Hold
    <3> QED
      BY <3>1, <3>2, LoadKept
  <2> QED
    BY <2>1, <2>2, <1>1
<1>3. ASSUME NEW a \in Attempts, NEW c \in Nat, Exists(a), hold' = Confirmed(a, c), gone' = gone
      PROVE  Committed' <= Committed
  BY <1>3, LoadConfirmed, CommittedNoMore
<1>4. ASSUME UNCHANGED <<hold, gone>> PROVE Committed' <= Committed
  BY <1>4, <1>1 DEF Load, Settled, Unsettled, Exists
<1>5. ASSUME NEW a \in Attempts, NEW c \in Amounts, Settle(a, c) \/ Retain(a, c)
      PROVE  Committed' <= Committed
  <2>1. gone' = gone /\ (hold' = hold \/ (Exists(a) /\ hold' = Confirmed(a, c)))
    BY <1>5 DEF Settle, Retain
  <2>2. c \in Nat
    BY CapAssumption
  <2> QED
    BY <2>1, <2>2, <1>3, <1>4
<1>6. ASSUME NEW a \in Attempts, RecoverHold(a) PROVE Committed' <= Committed
  <2>1. gone' = gone /\ Exists(a)
    BY <1>6 DEF RecoverHold, Unsettled
  <2>2. CASE Recovered(hold[a]) # NoAmount
    <3>1. Recovered(hold[a]) \in Nat
      BY <2>2, RowAmounts DEF Recovered
    <3>2. hold' = Confirmed(a, Recovered(hold[a]))
      BY <1>6, <2>2 DEF RecoverHold
    <3> QED
      BY <2>1, <3>1, <3>2, <1>3
  <2>3. CASE Recovered(hold[a]) = NoAmount
    <3>1. hold' = [hold EXCEPT ![a].state = "uncertain"]
      BY <1>6, <2>3 DEF RecoverHold
    <3>2. ASSUME NEW b \in Attempts PROVE Load'[b] = Load[b]
      <4>1. Exists(b)' <=> Exists(b)
        BY <1>0, <2>1, <3>1 DEF Exists, Hold
      <4>2. hold'[b].actual = hold[b].actual /\ hold'[b].reserved = hold[b].reserved
        BY <1>0, <3>1 DEF Hold
      <4> QED
        BY <4>1, <4>2, LoadKept
    <3> QED
      BY <2>1, <3>2, <1>1
  <2> QED
    BY <2>2, <2>3
<1>7. ASSUME Resume \/ Stop \/ ResetCap \/ UNCHANGED capVars \/ \E c \in Caps : SaveCap(c)
      PROVE  Committed' <= Committed
  BY <1>7, <1>4 DEF Resume, Stop, ResetCap, SaveCap, capVars
<1>8. ASSUME NEW s \in Sessions, Purge(s) PROVE Committed' <= Committed
  <2>1. Committed' = Committed /\ Committed \in Nat
    BY <1>8, CommittedByPurge, CommittedIs
  <2> QED
    BY <2>1
<1> QED
  BY <1>2, <1>5, <1>6, <1>7, <1>8 DEF CapNext

\* Whatever an operator saves, reserves are made, restarts interrupt and purges
\* fold, spend and open holds together stay within the saved cap as long as no
\* charge exceeded its ceiling (reserve, saveSettings, recover, purgeRetired).
THEOREM SavedCapIsKept == CapSpec => []SavedCapHolds
<1>1. CapInit => SavedCapHolds
  BY DEF CapInit, SavedCapHolds
<1>2. CapTypeOK /\ CapTypeOK' /\ SavedCapHolds /\ [CapNext]_capVars => SavedCapHolds'
  <2> SUFFICES ASSUME CapTypeOK, CapTypeOK', SavedCapHolds, [CapNext]_capVars, ~Overrun', stored' # NoAmount
               PROVE  Committed' <= stored'
    BY DEF SavedCapHolds
  <2>0. Committed \in Nat /\ (Committed \in Nat)' /\ stored' \in Nat
    <3>1. Committed \in Nat /\ (Committed \in Nat)'
      BY CommittedIs, PTL
    <3> QED
      BY <3>1 DEF CapTypeOK
  <2>1. CASE \E c \in Caps : SaveCap(c)
    <3>1. Committed <= stored' /\ UNCHANGED <<hold, gone>>
      BY <2>0, <2>1, CapAssumption DEF SaveCap
    <3>2. ~\E a \in Attempts, c \in Ceilings : Reserve(a, c)
      <4>1. hold \in [Attempts -> Hold]
        BY DEF CapTypeOK
      <4> QED
        BY <3>1, <4>1 DEF Reserve, NoHold
    <3> QED
      BY <2>0, <3>1, <3>2, CommittedStep
  <2>2. CASE ~\E c \in Caps : SaveCap(c)
    <3>1. stored' = stored
      BY <2>2 DEF CapNext, capVars, Reserve, Dispatch, MarkUncertain, Record, Settle, Retain, RecoverHold,
                  Resume, Stop, ResetCap, Purge
    <3>2. ~Overrun
      BY BreachKept
    <3>3. Committed <= stored
      BY <3>1, <3>2 DEF SavedCapHolds
    <3>4. CASE \E a \in Attempts, c \in Ceilings : Reserve(a, c)
      <4>1. PICK a \in Attempts, c \in Ceilings : Reserve(a, c)
        BY <3>4
      <4>2. Committed + AmountHeld(c) <= stored
        BY <3>1, <4>1 DEF Reserve, Fits, CapMicro
      <4> QED
        BY <3>1, <4>1, <4>2, CommittedByReserve
    <3> QED
      BY <2>0, <3>1, <3>3, <3>4, CommittedStep
  <2> QED
    BY <2>1, <2>2
<1> QED
  BY <1>1, <1>2, RowsWellFormed, PTL DEF CapSpec
=============================================================================
