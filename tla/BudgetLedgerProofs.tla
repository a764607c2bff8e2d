------------------------- MODULE BudgetLedgerProofs -------------------------
(***************************************************************************)
(* Theorems about the session's ledger, and about the calls that write it  *)
(* together with the provider's account.                                   *)
(*                                                                         *)
(* The first part is about BudgetLedger alone, for every set of attempts   *)
(* and sessions, every cap and every set of quotes and charges: the        *)
(* invariant IInv follows an attempt from its claim to its last receipt,   *)
(* and SumFacts carries the caps over the sums of the admission queries.   *)
(*                                                                         *)
(* The second part is about CallAccounting, where BudgetLedger and         *)
(* SpendCap are written by one invocation in separate transactions: the    *)
(* invariant CallInv says that what a book knows of a charge is true,      *)
(* wherever an invocation, the receipt job, an erasure or a death of the   *)
(* process left it. It is what the refinement of PaidRequests rests on.    *)
(***************************************************************************)
EXTENDS CallAccounting, SumFacts, SequenceTheorems, TLAPS

-----------------------------------------------------------------------------
(* The inputs and the helpers *)

\* The amounts and outcomes an operation takes are typed.
LEMMA InputTypes ==
  /\ \A q \in Quotes : q.max \in Nat /\ q.vmax \in Nat /\ q.exposure \in Nat /\ q.vexposure \in Nat
  /\ \A e \in Extensions : e.max \in Nat /\ e.vmax \in Nat
  /\ Reports \subseteq Outcomes
  /\ Charges \subseteq Nat
  /\ Reported \subseteq MaybeAmount
  /\ \A x \in MaybeAmount : x # NoAmount => x \in Nat
<1>1. \A q \in Quotes : q \in Quote
  BY LedgerAssumption
<1>2. \A e \in Extensions : e \in [max : Nat, vmax : Nat]
  BY LedgerAssumption
<1>3. Reports \subseteq Outcomes /\ Charges \subseteq Nat
  BY LedgerAssumption
<1>4. \A q \in Quotes : q.max \in Nat /\ q.vmax \in Nat /\ q.exposure \in Nat /\ q.vexposure \in Nat
  BY <1>1 DEF Quote
<1>5. \A e \in Extensions : e.max \in Nat /\ e.vmax \in Nat
  BY <1>2
<1> QED
  BY <1>3, <1>4, <1>5 DEF Reported, MaybeAmount

\* The larger of two amounts is an amount, and at least each of them.
LEMMA LargerFacts ==
  ASSUME NEW x \in Nat, NEW y \in Nat
  PROVE  Larger(x, y) \in Nat /\ Larger(x, y) >= x /\ Larger(x, y) >= y
BY DEF Larger

\* The fields of a typed state.
LEMMA Fields ==
  ASSUME TypeOK, NEW a \in Attempts
  PROVE  /\ row[a] \in Row /\ bill[a] \in Bill /\ cost[a] \in Cost /\ fix[a] \in Fix
         /\ row[a].max \in Nat /\ row[a].vmax \in Nat
         /\ row[a].exposure \in Nat /\ row[a].vexposure \in Nat
         /\ bill[a].micro \in Nat /\ bill[a].vmicro \in Nat
         /\ cost[a].charged \in MaybeAmount
         /\ observed[a] \in Nat
<1>1. row[a] \in Row /\ bill[a] \in Bill /\ cost[a] \in Cost /\ fix[a] \in Fix /\ observed[a] \in Nat
  BY DEF TypeOK
<1> QED
  BY <1>1 DEF Row, Bill, Cost

\* A correction of typed amounts is a correction record.
LEMMA CorrectionType ==
  ASSUME TypeOK, NEW a \in Attempts, NEW c \in Nat, NEW v \in Nat
  PROVE  [audit EXCEPT ![a] = Append(@, Correction(a, c, v))] \in [Attempts -> Seq(CorrectionRecord)]
<1>1. Correction(a, c, v) \in CorrectionRecord
  BY Fields DEF Correction, CorrectionRecord
<1>2. audit \in [Attempts -> Seq(CorrectionRecord)]
  BY DEF TypeOK
<1>3. Append(audit[a], Correction(a, c, v)) \in Seq(CorrectionRecord)
  BY <1>1, <1>2
<1> QED
  BY <1>2, <1>3

\* The overrun flag is a flag.
LEMMA OverranType == \A a \in Attempts, c \in Nat : Overran(a, c) \in BOOLEAN
BY DEF Overran

\* Posting typed amounts keeps the bills typed.
LEMMA PostedType ==
  ASSUME TypeOK, NEW a \in Attempts, NEW c \in Nat, NEW v \in Nat
  PROVE  Posted(bill, a, c, v) \in [Attempts -> Bill]
<1>1. [bill[a] EXCEPT !.micro = c, !.vmicro = v, !.overrun = Overran(a, c)] \in Bill
  BY Fields, OverranType DEF Bill
<1> QED
  BY <1>1 DEF Posted, TypeOK

\* What an attempt is charged without its provider's account is an amount, and
\* at least its maximum.
LEMMA FullExposureFacts ==
  ASSUME TypeOK, NEW a \in Attempts
  PROVE  FullExposure(a) \in Nat /\ FullExposure(a) >= row[a].max
BY Fields, LargerFacts DEF FullExposure

\* Retaining a charge for the reservation keeps it an amount.
LEMMA RetainType ==
  ASSUME TypeOK, NEW a \in Attempts, NEW c \in MaybeAmount, Retain(a, c)
  PROVE  retained' \in [Attempts -> MaybeAmount]
BY DEF TypeOK, Retain

\* A settlement of typed amounts is a bill.
LEMMA TerminalType ==
  ASSUME TypeOK, NEW a \in Attempts, NEW o \in Outcomes, NEW c \in Nat, NEW v \in Nat
  PROVE  [bill EXCEPT ![a] = Terminal(a, o, c, v)] \in [Attempts -> Bill]
<1>1. Terminal(a, o, c, v) \in Bill
  BY OverranType DEF Terminal, Bill
<1> QED
  BY <1>1 DEF TypeOK

\* Settling, claiming or dispatching changes no amount of a row.
LEMMA StateType ==
  ASSUME TypeOK, NEW a \in Attempts, NEW x \in {"claimed", "dispatched", "settled"}
  PROVE  [row EXCEPT ![a].state = x] \in [Attempts -> Row]
BY ZenonT(60) DEF TypeOK, Row

\* Larger maxima are maxima.
LEMMA MaximaType ==
  ASSUME TypeOK, NEW a \in Attempts, NEW m \in Nat, NEW v \in Nat
  PROVE  [row EXCEPT ![a].max = m, ![a].vmax = v] \in [Attempts -> Row]
<1>1. [row[a] EXCEPT !.max = m, !.vmax = v] \in Row
  BY Fields DEF Row
<1>2. [row EXCEPT ![a].max = m, ![a].vmax = v] = [row EXCEPT ![a] = [row[a] EXCEPT !.max = m, !.vmax = v]]
  BY DEF TypeOK
<1> QED
  BY <1>1, <1>2 DEF TypeOK

\* Recovery settles with an amount.
LEMMA RecoveredBillType ==
  ASSUME TypeOK, NEW a \in Attempts
  PROVE  RecoveredBill(a) \in Bill
<1>1. RecoveredMicro(a) \in Nat
  BY FullExposureFacts, Fields, InputTypes DEF RecoveredMicro, Receipted
<1>2. Larger(row[a].vmax, row[a].vexposure) \in Nat
  BY LargerFacts, Fields
<1>3. bill[a] \in Bill
  BY Fields
<1> QED
  BY <1>1, <1>2, <1>3 DEF RecoveredBill, Bill, Outcomes

\* Posting evidence of a charge keeps everything typed.
LEMMA PostCostType ==
  ASSUME TypeOK, NEW a \in Attempts, NEW k \in {"estimate", "receipt"}, NEW c \in Nat, PostCost(a, k, c)
  PROVE  /\ bill' \in [Attempts -> Bill]
         /\ fix' \in [Attempts -> Fix]
         /\ audit' \in [Attempts -> Seq(CorrectionRecord)]
<1>1. bill' \in [Attempts -> Bill]
  BY PostedType, Fields DEF PostCost
<1>2. fix' \in [Attempts -> Fix]
  BY DEF PostCost, TypeOK, Fix
<1>3. audit' \in [Attempts -> Seq(CorrectionRecord)]
  BY CorrectionType, Fields DEF PostCost
<1> QED
  BY <1>1, <1>2, <1>3

-----------------------------------------------------------------------------
(* Types, one lemma per operation *)

\* A new row is typed: its caps and exposures are those of the quote.
LEMMA AdmitType == ASSUME TypeOK, NEW a \in Attempts, NEW q \in Quotes, Admit(a, q) PROVE TypeOK'
<1>1. q.max \in Nat /\ q.vmax \in Nat /\ q.exposure \in Nat /\ q.vexposure \in Nat
  BY InputTypes
<1>2. row' \in [Attempts -> Row]
  BY <1>1 DEF Admit, TypeOK, Row
<1> QED
  BY <1>2 DEF Admit, TypeOK

\* Taking the claim keeps the types.
LEMMA ClaimType == ASSUME TypeOK, NEW a \in Attempts, Claim(a) PROVE TypeOK'
<1>1. row' \in [Attempts -> Row]
  BY StateType DEF Claim
<1> QED
  BY <1>1 DEF Claim, TypeOK

\* Burning the claim keeps the types.
LEMMA ConsumeType == ASSUME TypeOK, NEW a \in Attempts, Consume(a) PROVE TypeOK'
<1>1. row' \in [Attempts -> Row]
  BY ZenonT(60), StateType DEF Consume, TypeOK
<1> QED
  BY <1>1 DEF Consume, TypeOK

\* Recording the dispatch keeps the types.
LEMMA MarkCostDispatchType == ASSUME TypeOK, NEW a \in Attempts, MarkCostDispatch(a) PROVE TypeOK'
<1>1. cost' \in [Attempts -> Cost]
  BY DEF MarkCostDispatch, TypeOK, Cost
<1> QED
  BY <1>1 DEF MarkCostDispatch, TypeOK

\* A settlement keeps the types: what it charges is its usage or what it retains, both natural.
LEMMA SettleType ==
  ASSUME TypeOK, NEW a \in Attempts, NEW o \in Outcomes, NEW c \in MaybeAmount, NEW e \in BOOLEAN,
         Settle(a, o, c, e)
  PROVE  TypeOK'
<1>1. c # NoAmount => c \in Nat
  BY InputTypes
<1>2. CASE Sealed(a)
  <2>1. retained' \in [Attempts -> MaybeAmount]
    BY <1>1, <1>2 DEF Settle, Retain, TypeOK, MaybeAmount
  <2> QED
    BY <1>2, <2>1 DEF Settle, TypeOK, durable
<1>3. CASE ~Sealed(a)
  <2> DEFINE charge == IF row[a].state # "dispatched" THEN 0 ELSE IF c = NoAmount THEN row[a].max ELSE c
             outcome == IF row[a].state # "dispatched" THEN "cancelled"
                        ELSE IF c = NoAmount THEN "uncertain" ELSE o
  <2>1. charge \in Nat
    BY <1>1, Fields
  <2>2. outcome \in Outcomes
    BY <1>1 DEF Outcomes
  <2>3. row' = [row EXCEPT ![a].state = "settled"]
    BY <1>3 DEF Settle
  <2>4. PICK f \in BOOLEAN : bill' = [bill EXCEPT ![a] = [Terminal(a, outcome, charge, 0) EXCEPT !.overrun = f]]
    BY <1>3 DEF Settle
  <2> HIDE DEF charge, outcome
  <2>5. [Terminal(a, outcome, charge, 0) EXCEPT !.overrun = f] \in Bill
    BY <2>1, <2>2, OverranType DEF Terminal, Bill
  <2>6. bill' \in [Attempts -> Bill]
    BY <2>4, <2>5 DEF TypeOK
  <2>7. row' \in [Attempts -> Row]
    BY <2>3, StateType
  <2> QED
    BY <1>3, <2>6, <2>7 DEF Settle, TypeOK
<1> QED
  BY <1>2, <1>3

\* The settlement of a voice row keeps the types, with tokens and minutes charged apart.
LEMMA SettleVoiceType ==
  ASSUME TypeOK, NEW a \in Attempts, NEW o \in Reports, NEW c \in Reported, NEW v \in Charges,
         NEW e \in BOOLEAN, SettleVoice(a, o, c, v, e)
  PROVE  TypeOK'
<1>1. c \in MaybeAmount /\ o \in Outcomes /\ v \in Nat /\ (c # NoAmount => c \in Nat)
  BY InputTypes
<1>2. CASE Sealed(a)
  <2>1. retained' \in [Attempts -> MaybeAmount]
    BY <1>1, <1>2 DEF SettleVoice, Retain, TypeOK, MaybeAmount
  <2> QED
    BY <1>2, <2>1 DEF SettleVoice, TypeOK, durable
<1>3. CASE ~Sealed(a)
  <2> DEFINE exposure == Larger(FullExposure(a), IF c = NoAmount THEN 0 ELSE c)
             charge == IF row[a].state # "dispatched" THEN 0 ELSE IF o # "uncertain" THEN c ELSE exposure
             visitor == IF row[a].state # "dispatched" THEN 0 ELSE IF o # "uncertain" THEN v
                        ELSE Larger(row[a].vmax, row[a].vexposure)
             outcome == IF row[a].state # "dispatched" THEN "cancelled" ELSE o
  <2>1. exposure \in Nat
    BY <1>1, LargerFacts, FullExposureFacts
  <2>2. Larger(row[a].vmax, row[a].vexposure) \in Nat
    BY Fields, LargerFacts
  <2> HIDE DEF exposure
  <2>3. o # "uncertain" => c \in Nat
    BY <1>1 DEF SettleVoice
  <2>4. charge \in Nat
    BY <2>1, <2>3
  <2>5. visitor \in Nat
    BY <1>1, <2>2
  <2>6. outcome \in Outcomes
    BY <1>1 DEF Outcomes
  <2>7. /\ bill' = [bill EXCEPT ![a] = Terminal(a, outcome, charge, visitor)]
        /\ row' = [row EXCEPT ![a].state = "settled"]
    BY <1>3 DEF SettleVoice, exposure
  <2> HIDE DEF charge, visitor, outcome
  <2>8. bill' \in [Attempts -> Bill]
    BY <2>4, <2>5, <2>6, <2>7, TerminalType
  <2>9. row' \in [Attempts -> Row]
    BY <2>7, StateType
  <2> QED
    BY <1>3, <2>8, <2>9 DEF SettleVoice, TypeOK
<1> QED
  BY <1>2, <1>3

\* Usage reported by one component keeps the types.
LEMMA ObserveComponentType ==
  ASSUME TypeOK, NEW a \in Attempts, NEW c \in Charges, ObserveComponent(a, c)
  PROVE  TypeOK'
<1>1. Larger(observed[a], c) \in Nat
  BY Fields, InputTypes, LargerFacts
<1>2. observed' \in [Attempts -> Nat]
  BY <1>1 DEF ObserveComponent, TypeOK
<1> QED
  BY <1>2 DEF ObserveComponent, TypeOK

\* The settlement of a component row keeps the types.
LEMMA SettleComponentType ==
  ASSUME TypeOK, NEW a \in Attempts, NEW o \in Reports, NEW u \in Reported, NEW c \in Reported,
         SettleComponent(a, o, u, c)
  PROVE  TypeOK'
<1>1. /\ o \in Outcomes
      /\ u # NoAmount => u \in Nat
      /\ c # NoAmount => c \in Nat
  BY InputTypes
<1> DEFINE seen == Larger(observed[a], IF u = NoAmount THEN 0 ELSE u)
           exposure == Larger(Larger(row[a].max, seen), IF c = NoAmount THEN 0 ELSE c)
           charge == IF row[a].state # "dispatched" THEN 0 ELSE IF o # "uncertain" THEN u ELSE exposure
           outcome == IF row[a].state # "dispatched" THEN "cancelled" ELSE o
<1>2. seen \in Nat
  BY <1>1, Fields, LargerFacts
<1>3. exposure \in Nat
  BY <1>1, <1>2, Fields, LargerFacts
<1>4. charge \in Nat
  BY <1>1, <1>3 DEF SettleComponent
<1>5. outcome \in Outcomes
  BY <1>1 DEF Outcomes
<1>6. /\ observed' = [observed EXCEPT ![a] = seen]
      /\ row' = [row EXCEPT ![a].state = "settled"]
      /\ bill' = [bill EXCEPT ![a] = Terminal(a, outcome, charge, 0)]
  BY DEF SettleComponent
<1> HIDE DEF seen, exposure, charge, outcome
<1>7. observed' \in [Attempts -> Nat]
  BY <1>2, <1>6 DEF TypeOK
<1>8. row' \in [Attempts -> Row]
  BY <1>6, StateType
<1>9. bill' \in [Attempts -> Bill]
  BY <1>4, <1>5, <1>6, TerminalType
<1> QED
  BY <1>7, <1>8, <1>9 DEF SettleComponent, TypeOK

\* A reconciliation keeps the types: it copies the charge and appends a correction.
LEMMA ReconcileCostType ==
  ASSUME TypeOK, NEW a \in Attempts, NEW k \in {"estimate", "receipt"}, NEW c \in Nat,
         ReconcileCost(a, k, c)
  PROVE  TypeOK'
<1>2. CASE Sealed(a)
  <2>1. retained' \in [Attempts -> MaybeAmount]
    BY <1>2 DEF ReconcileCost, Retain, TypeOK, MaybeAmount
  <2> QED
    BY <1>2, <2>1 DEF ReconcileCost, TypeOK, durable
<1>3. CASE ~Sealed(a)
  BY <1>3, PostCostType DEF ReconcileCost, TypeOK
<1> QED
  BY <1>2, <1>3

\* A recorded charge keeps the types, whether it is posted at once or not.
LEMMA ObserveCostType ==
  ASSUME TypeOK, NEW a \in Attempts, NEW g \in Generations \cup {NoGeneration}, NEW c \in MaybeAmount,
         ObserveCost(a, g, c)
  PROVE  TypeOK'
<1>1. c # NoAmount => c \in Nat
  BY InputTypes
<1>2. CASE Sealed(a)
  <2>1. retained' \in [Attempts -> MaybeAmount]
    BY <1>1, <1>2 DEF ObserveCost, Retain, TypeOK, MaybeAmount
  <2> QED
    BY <1>2, <2>1 DEF ObserveCost, TypeOK, durable
<1>3. CASE ~Sealed(a)
  <2>1. cost' = [cost EXCEPT ![a].gen = IF g = NoGeneration THEN @ ELSE g,
                             ![a].charged = IF c = NoAmount THEN @ ELSE c]
    BY <1>3 DEF ObserveCost
  <2> DEFINE gen == IF g = NoGeneration THEN cost[a].gen ELSE g
             charged == IF c = NoAmount THEN cost[a].charged ELSE c
  <2>2. gen \in Generations \cup {NoGeneration} /\ charged \in MaybeAmount
    BY <1>1, Fields DEF Cost
  <2>3. cost' = [cost EXCEPT ![a] = [cost[a] EXCEPT !.gen = gen, !.charged = charged]]
    BY <2>1 DEF TypeOK
  <2> HIDE DEF gen, charged
  <2>4. [cost[a] EXCEPT !.gen = gen, !.charged = charged] \in Cost
    BY <2>2, Fields DEF Cost
  <2>5. cost' \in [Attempts -> Cost]
    BY <2>3, <2>4 DEF TypeOK
  <2>6. /\ token' \in [Attempts -> {"none", "held", "spent"}]
        /\ up' \in BOOLEAN
        /\ UNCHANGED <<row, observed, reach, sealed, retained>>
    BY <1>3 DEF ObserveCost, TypeOK
  <2>7. \/ c # NoAmount /\ PostCost(a, "receipt", c)
        \/ UNCHANGED <<bill, fix, audit>>
    BY <1>3 DEF ObserveCost
  <2>8. /\ bill' \in [Attempts -> Bill]
        /\ fix' \in [Attempts -> Fix]
        /\ audit' \in [Attempts -> Seq(CorrectionRecord)]
    BY <1>1, <2>7, PostCostType DEF TypeOK
  <2> QED
    BY <2>5, <2>6, <2>8 DEF TypeOK
<1> QED
  BY <1>2, <1>3

\* The reconciliation of a voice row keeps the types.
LEMMA ReconcileVoiceType ==
  ASSUME TypeOK, NEW a \in Attempts, NEW k \in {"estimate", "receipt"}, NEW c \in Charges, NEW v \in Charges,
         ReconcileVoice(a, k, c, v)
  PROVE  TypeOK'
<1>1. c \in Nat /\ v \in Nat
  BY InputTypes
<1>2. CASE Sealed(a)
  <2>1. retained' \in [Attempts -> MaybeAmount]
    BY <1>1, <1>2 DEF ReconcileVoice, Retain, TypeOK, MaybeAmount
  <2> QED
    BY <1>2, <2>1 DEF ReconcileVoice, TypeOK, durable
<1>3. CASE ~Sealed(a)
  <2>1. bill' \in [Attempts -> Bill]
    BY <1>1, <1>3, PostedType DEF ReconcileVoice
  <2>2. [kind |-> k, micro |-> c, vmicro |-> v] \in Fix
    BY <1>1 DEF Fix
  <2>3. fix' = [fix EXCEPT ![a] = [kind |-> k, micro |-> c, vmicro |-> v]]
    BY <1>3 DEF ReconcileVoice
  <2>4. fix' \in [Attempts -> Fix]
    BY <2>2, <2>3 DEF TypeOK
  <2>5. audit' = [audit EXCEPT ![a] = Append(@, Correction(a, c, v))]
    BY <1>3 DEF ReconcileVoice
  <2>6. audit' \in [Attempts -> Seq(CorrectionRecord)]
    BY <1>1, <2>5, CorrectionType
  <2> QED
    BY <1>3, <2>1, <2>4, <2>6 DEF ReconcileVoice, TypeOK
<1> QED
  BY <1>2, <1>3

\* An extension raises the maxima of a voice row by naturals.
LEMMA ExtendVoiceType == ASSUME TypeOK, NEW a \in Attempts, NEW e \in Extensions, ExtendVoice(a, e) PROVE TypeOK'
<1>1. Larger(e.max, row[a].max) \in Nat /\ Larger(e.vmax, row[a].vmax) \in Nat
  BY InputTypes, Fields, LargerFacts
<1>2. row' = [row EXCEPT ![a].max = Larger(e.max, row[a].max), ![a].vmax = Larger(e.vmax, row[a].vmax)]
  BY DEF ExtendVoice
<1>3. row' \in [Attempts -> Row]
  BY <1>1, <1>2, MaximaType
<1> QED
  BY <1>3 DEF ExtendVoice, TypeOK

\* Charging the exposure of a voice row keeps the types.
LEMMA RetainVoiceExposureType == ASSUME TypeOK, NEW a \in Attempts, RetainVoiceExposure(a) PROVE TypeOK'
<1>1. Larger(row[a].max, row[a].exposure) \in Nat /\ Larger(row[a].vmax, row[a].vexposure) \in Nat
  BY Fields, LargerFacts
<1> DEFINE r == [row[a] EXCEPT !.max = Larger(@, row[a].exposure), !.vmax = Larger(@, row[a].vexposure),
                               !.closing = TRUE]
<1>2. r \in Row
  BY <1>1, Fields DEF Row
<1>3. row' = [row EXCEPT ![a] = r]
  BY DEF RetainVoiceExposure, TypeOK
<1>4. row' \in [Attempts -> Row]
  BY <1>2, <1>3 DEF TypeOK
<1> QED
  BY <1>4 DEF RetainVoiceExposure, TypeOK

\* Marking the visitor's credits as released keeps the types.
LEMMA ReleaseCreditsType == ASSUME TypeOK, NEW a \in Attempts, ReleaseCredits(a) PROVE TypeOK'
<1>1. bill' \in [Attempts -> Bill]
  BY ZenonT(60) DEF ReleaseCredits, TypeOK, Bill
<1> QED
  BY <1>1 DEF ReleaseCredits, TypeOK

\* Startup keeps the types of all open rows at once.
LEMMA RecoverType == ASSUME TypeOK, Recover PROVE TypeOK'
<1>1. \A a \in Attempts : [row[a] EXCEPT !.state = "settled"] \in Row /\ row[a] \in Row
  BY ZenonT(60) DEF TypeOK, Row
<1>2. \A a \in Attempts : RecoveredBill(a) \in Bill /\ bill[a] \in Bill
  BY RecoveredBillType, Fields
<1>3. row' \in [Attempts -> Row]
  BY <1>1 DEF Recover
<1>4. bill' \in [Attempts -> Bill]
  BY <1>2 DEF Recover
<1> QED
  BY <1>3, <1>4 DEF Recover, TypeOK

-----------------------------------------------------------------------------
\* The empty ledger is typed.
LEMMA InitType == Init => TypeOK
<1>1. NoRow \in Row /\ NoBill \in Bill /\ NoCost \in Cost /\ NoFix \in Fix
  BY DEF NoRow, NoBill, NoCost, NoFix, Row, Bill, Cost, Fix, MaybeAmount
<1> QED
  BY <1>1 DEF Init, TypeOK, MaybeAmount

(* Every variable keeps its type: the CHECK constraints of the schema and the *)
(* state names of the class.                                                  *)
THEOREM TypeCorrect == Spec => []TypeOK
<1>1. Init => TypeOK
  BY InitType
<1>2. TypeOK /\ [Next]_vars => TypeOK'
  <2> SUFFICES ASSUME TypeOK, [Next]_vars
               PROVE  TypeOK'
    OBVIOUS
  <2>1. ASSUME NEW a \in Attempts, Attempt(a)
        PROVE  TypeOK'
    <3>1. CASE CallProvider(a)
      BY <3>1 DEF CallProvider, TypeOK
    <3>2. Reports \subseteq Outcomes /\ Reported \subseteq MaybeAmount /\ Charges \subseteq Nat
      BY InputTypes
    <3> QED
      BY <2>1, <3>1, <3>2, AdmitType, ClaimType, ConsumeType, MarkCostDispatchType, SettleType,
         SettleVoiceType, SettleComponentType, ObserveComponentType, ObserveCostType,
         ReconcileCostType, ReconcileVoiceType, ExtendVoiceType, RetainVoiceExposureType,
         ReleaseCreditsType DEF Attempt
  <2>2. ASSUME NEW s \in Sessions, Seal(s)
        PROVE  TypeOK'
    BY <2>2 DEF Seal, TypeOK, durable
  <2>3. CASE Crash
    BY <2>3 DEF Crash, TypeOK, durable
  <2>4. CASE Recover
    BY <2>4, RecoverType
  <2>5. CASE UNCHANGED vars
    BY <2>5 DEF vars, TypeOK
  <2> QED
    BY <2>1, <2>2, <2>3, <2>4, <2>5 DEF Next
<1> QED
  BY <1>1, <1>2, PTL DEF Spec

-----------------------------------------------------------------------------
(* What a step of one attempt leaves alone *)

\* What is on record of an attempt.
Record(a) == <<row[a], bill[a], observed[a], cost[a], fix[a], audit[a]>>

\* A step of one attempt does not touch another.
LEMMA OneRowMoves ==
  ASSUME TypeOK, NEW a \in Attempts, NEW b \in Attempts, a # b, Attempt(a)
  PROVE  Record(b)' = Record(b) /\ reach'[b] = reach[b]
<1> USE DEF Record, TypeOK, durable
<1>1. ASSUME NEW q \in Quotes, Admit(a, q) PROVE Record(b)' = Record(b) /\ reach'[b] = reach[b]
  BY <1>1 DEF Admit
<1>2. CASE Claim(a)
  BY <1>2 DEF Claim
<1>3. CASE Consume(a)
  BY <1>3 DEF Consume
<1>4. CASE MarkCostDispatch(a)
  BY <1>4 DEF MarkCostDispatch
<1>5. CASE CallProvider(a)
  BY <1>5 DEF CallProvider
<1>6. ASSUME NEW o \in Reports, NEW c \in Reported, NEW e \in BOOLEAN, Settle(a, o, c, e)
      PROVE  Record(b)' = Record(b) /\ reach'[b] = reach[b]
  BY <1>6 DEF Settle
<1>7. ASSUME NEW o \in Reports, NEW c \in Reported, NEW v \in Charges, NEW e \in BOOLEAN,
             SettleVoice(a, o, c, v, e)
      PROVE  Record(b)' = Record(b) /\ reach'[b] = reach[b]
  BY <1>7 DEF SettleVoice
<1>8. ASSUME NEW o \in Reports, NEW u \in Reported, NEW c \in Reported, SettleComponent(a, o, u, c)
      PROVE  Record(b)' = Record(b) /\ reach'[b] = reach[b]
  BY <1>8 DEF SettleComponent
<1>9. ASSUME NEW c \in Charges, ObserveComponent(a, c)
      PROVE  Record(b)' = Record(b) /\ reach'[b] = reach[b]
  BY <1>9 DEF ObserveComponent
<1>10. ASSUME NEW g \in Generations \cup {NoGeneration}, NEW c \in Reported, ObserveCost(a, g, c)
       PROVE  Record(b)' = Record(b) /\ reach'[b] = reach[b]
  BY <1>10 DEF ObserveCost, PostCost, Posted
<1>11. ASSUME NEW k \in {"estimate", "receipt"}, NEW c \in Charges, ReconcileCost(a, k, c)
       PROVE  Record(b)' = Record(b) /\ reach'[b] = reach[b]
  BY <1>11 DEF ReconcileCost, PostCost, Posted
<1>12. ASSUME NEW k \in {"estimate", "receipt"}, NEW c \in Charges, NEW v \in Charges,
              ReconcileVoice(a, k, c, v)
       PROVE  Record(b)' = Record(b) /\ reach'[b] = reach[b]
  BY <1>12 DEF ReconcileVoice, Posted
<1>13. ASSUME NEW e \in Extensions, ExtendVoice(a, e)
       PROVE  Record(b)' = Record(b) /\ reach'[b] = reach[b]
  BY <1>13 DEF ExtendVoice
<1>14. CASE RetainVoiceExposure(a)
  BY <1>14 DEF RetainVoiceExposure
<1>15. CASE ReleaseCredits(a)
  BY <1>15 DEF ReleaseCredits
<1> QED
  BY <1>1, <1>2, <1>3, <1>4, <1>5, <1>6, <1>7, <1>8, <1>9, <1>10, <1>11, <1>12, <1>13, <1>14, <1>15
  DEF Attempt

\* Behind the fence an attempt's own steps write nothing either.
LEMMA SealedKept ==
  ASSUME NEW a \in Attempts, Sealed(a), Attempt(a)
  PROVE  UNCHANGED durable
BY DEF Attempt, Admit, Claim, Consume, MarkCostDispatch, CallProvider, Settle, SettleVoice, SettleComponent,
       ObserveComponent, ObserveCost, ReconcileCost, ReconcileVoice, ExtendVoice, RetainVoiceExposure,
       ReleaseCredits, durable

-----------------------------------------------------------------------------
(* The retirement fence holds for every step, recovery and late receipts       *)
(* included (retirement_pending.billing_sealed).                               *)
THEOREM FenceHolds == Spec => SealedBillingFrozen
<1> DEFINE Kept == \A a \in Attempts : Sealed(a) => Record(a)' = Record(a)
<1>1. TypeOK /\ [Next]_vars => [Kept]_vars
  <2> SUFFICES ASSUME TypeOK, [Next]_vars, NEW b \in Attempts, Sealed(b)
               PROVE  Record(b)' = Record(b)
    OBVIOUS
  <2>1. ASSUME NEW a \in Attempts, Attempt(a)
        PROVE  Record(b)' = Record(b)
    <3>1. CASE a = b
      BY <2>1, <3>1, SealedKept DEF Record, durable
    <3>2. CASE a # b
      BY <2>1, <3>2, OneRowMoves
    <3> QED
      BY <3>1, <3>2
  <2>2. ASSUME NEW s \in Sessions, Seal(s)
        PROVE  Record(b)' = Record(b)
    BY <2>2 DEF Seal, Record, durable
  <2>3. CASE Crash
    BY <2>3 DEF Crash, Record, durable
  <2>4. CASE Recover
    BY <2>4 DEF Recover, Recoverable, Record, TypeOK
  <2>5. CASE UNCHANGED vars
    BY <2>5 DEF vars, Record
  <2> QED
    BY <2>1, <2>2, <2>3, <2>4, <2>5 DEF Next
<1>2. Kept => \A a \in Attempts : Sealed(a) =>
                 /\ row'[a] = row[a] /\ bill'[a] = bill[a] /\ observed'[a] = observed[a]
                 /\ cost'[a] = cost[a] /\ fix'[a] = fix[a] /\ audit'[a] = audit[a]
  BY DEF Record
<1> QED
  BY <1>1, <1>2, TypeCorrect, PTL DEF Spec, SealedBillingFrozen

-----------------------------------------------------------------------------
(* The life of an attempt: the invariant the safety theorems rest on *)

Life(a) ==
  /\ row[a].state \in {"none", "admitted", "claimed"} => reach[a] = "unsent"
  /\ row[a].state = "dispatched" => reach[a] # "unsent"
  /\ ~Settled(a) => /\ bill[a].outcome = "none" /\ bill[a].micro = 0 /\ bill[a].vmicro = 0
                    /\ fix[a].kind = "none"
  /\ bill[a].outcome = "uncertain" => reach[a] # "unsent"
  /\ bill[a].micro > 0 \/ bill[a].vmicro > 0 => reach[a] # "unsent"
  /\ Called(a) /\ a \in CostBacked => cost[a].started
  /\ a \in Component => row[a].vmax = 0 /\ row[a].exposure = 0 /\ row[a].vexposure = 0

\* An operation that only moves the row's state, or its maxima while a voice
\* call runs, keeps the life of the attempt.
LEMMA LifeStep ==
  ASSUME TypeOK, NEW a \in Attempts, Life(a), Attempt(a)
  PROVE  Life(a)'
<1> USE DEF Life, Settled, Called
<1>1. ASSUME NEW q \in Quotes, Admit(a, q) PROVE Life(a)'
  BY <1>1 DEF Admit, TypeOK, LaneAccepts, Component, Voice
<1>2. CASE Claim(a)
  BY <1>2 DEF Claim, TypeOK, Row
<1>3. CASE Consume(a)
  BY <1>3 DEF Consume, TypeOK, Row
<1>4. CASE MarkCostDispatch(a)
  BY <1>4 DEF MarkCostDispatch, TypeOK, Cost
<1>5. CASE CallProvider(a)
  BY <1>5 DEF CallProvider, TypeOK
<1>6. ASSUME NEW o \in Reports, NEW c \in Reported, NEW e \in BOOLEAN, Settle(a, o, c, e)
      PROVE  Life(a)'
  <2>1. CASE Sealed(a)
    BY <1>6, <2>1 DEF Settle, durable
  <2>2. CASE ~Sealed(a)
    <3>1. PICK oc, mc, f : bill' = [bill EXCEPT ![a] = [Terminal(a, oc, mc, 0) EXCEPT !.overrun = f]]
                           /\ (row[a].state # "dispatched" => oc = "cancelled" /\ mc = 0)
      BY <1>6, <2>2 DEF Settle
    <3>2. bill'[a].outcome = oc /\ bill'[a].micro = mc /\ bill'[a].vmicro = 0
      BY <3>1 DEF Terminal, TypeOK
    <3>3. row'[a] = [row[a] EXCEPT !.state = "settled"] /\ UNCHANGED <<reach, fix, cost>>
      BY <1>6, <2>2 DEF Settle, TypeOK
    <3>4. row[a].state \in {"claimed", "dispatched"}
      BY <1>6 DEF Settle, Claimed
    <3> QED
      BY <3>1, <3>2, <3>3, <3>4 DEF TypeOK, Row
  <2> QED
    BY <2>1, <2>2
<1>7. ASSUME NEW o \in Reports, NEW c \in Reported, NEW v \in Charges, NEW e \in BOOLEAN,
             SettleVoice(a, o, c, v, e)
      PROVE  Life(a)'
  <2>1. CASE Sealed(a)
    BY <1>7, <2>1 DEF SettleVoice, durable
  <2>2. CASE ~Sealed(a)
    BY <1>7, <2>2 DEF SettleVoice, Terminal, Claimed, TypeOK, Row, Bill
  <2> QED
    BY <2>1, <2>2
<1>8. ASSUME NEW o \in Reports, NEW u \in Reported, NEW c \in Reported, SettleComponent(a, o, u, c)
      PROVE  Life(a)'
  BY <1>8 DEF SettleComponent, Terminal, Claimed, TypeOK, Row, Bill
<1>9. ASSUME NEW c \in Charges, ObserveComponent(a, c)
      PROVE  Life(a)'
  BY <1>9 DEF ObserveComponent
<1>10. ASSUME NEW g \in Generations \cup {NoGeneration}, NEW c \in Reported, ObserveCost(a, g, c)
       PROVE  Life(a)'
  <2>1. CASE Sealed(a)
    BY <1>10, <2>1 DEF ObserveCost, durable
  <2>2. CASE ~Sealed(a)
    <3>1. row'[a] = row[a] /\ reach'[a] = reach[a] /\ cost'[a].started = cost[a].started
      BY <1>10, <2>2 DEF ObserveCost, TypeOK, Cost
    <3>2. \/ /\ Settled(a) /\ CostAccepted(a, "receipt", c)
             /\ PostCost(a, "receipt", c)
          \/ UNCHANGED <<bill, fix, audit>>
      BY <1>10, <2>2 DEF ObserveCost
    <3> QED
      BY <3>1, <3>2 DEF PostCost, Posted, CostAccepted, TypeOK, Bill
  <2> QED
    BY <2>1, <2>2
<1>11. ASSUME NEW k \in {"estimate", "receipt"}, NEW c \in Charges, ReconcileCost(a, k, c)
       PROVE  Life(a)'
  <2>1. CASE Sealed(a)
    BY <1>11, <2>1 DEF ReconcileCost, durable
  <2>2. CASE ~Sealed(a)
    BY <1>11, <2>2 DEF ReconcileCost, PostCost, Posted, CostAccepted, TypeOK, Bill, Fix
  <2> QED
    BY <2>1, <2>2
<1>12. ASSUME NEW k \in {"estimate", "receipt"}, NEW c \in Charges, NEW v \in Charges,
              ReconcileVoice(a, k, c, v)
       PROVE  Life(a)'
  <2>1. CASE Sealed(a)
    BY <1>12, <2>1 DEF ReconcileVoice, durable
  <2>2. CASE ~Sealed(a)
    BY <1>12, <2>2 DEF ReconcileVoice, Posted, TypeOK, Bill, Fix
  <2> QED
    BY <2>1, <2>2
<1>13. ASSUME NEW e \in Extensions, ExtendVoice(a, e)
       PROVE  Life(a)'
  BY <1>13 DEF ExtendVoice, TypeOK, Row, Voice, Component
<1>14. CASE RetainVoiceExposure(a)
  BY <1>14 DEF RetainVoiceExposure, TypeOK, Row, Voice, Component
<1>15. CASE ReleaseCredits(a)
  BY <1>15 DEF ReleaseCredits, TypeOK, Bill
<1> QED
  BY <1>1, <1>2, <1>3, <1>4, <1>5, <1>6, <1>7, <1>8, <1>9, <1>10, <1>11, <1>12, <1>13, <1>14, <1>15
  DEF Attempt

\* Nothing else a step reads or writes touches the life of an attempt.
LEMMA LifeKept ==
  ASSUME NEW a \in Attempts, Life(a), Record(a)' = Record(a), reach'[a] = reach[a]
  PROVE  Life(a)'
BY DEF Life, Record, Settled, Called

\* Recovery charges only what was dispatched.
LEMMA LifeRecovered ==
  ASSUME TypeOK, NEW a \in Attempts, Life(a), Recover
  PROVE  Life(a)'
<1>1. CASE a \in Recoverable
  <2>1. /\ row'[a] = [row[a] EXCEPT !.state = "settled"]
        /\ bill'[a] = RecoveredBill(a)
        /\ cost'[a] = cost[a] /\ fix'[a] = fix[a] /\ reach'[a] = reach[a]
    BY <1>1 DEF Recover
  <2>2. row[a].state # "dispatched" =>
           bill'[a].outcome = "cancelled" /\ bill'[a].micro = 0 /\ bill'[a].vmicro = 0
    BY <2>1 DEF RecoveredBill, RecoveredMicro, Liable, TypeOK, Bill
  <2>3. row'[a].state = "settled" /\ row'[a].vmax = row[a].vmax
        /\ row'[a].exposure = row[a].exposure /\ row'[a].vexposure = row[a].vexposure
    BY <2>1 DEF TypeOK, Row
  <2> QED
    BY <2>1, <2>2, <2>3 DEF Life, Settled, Called
<1>2. CASE a \notin Recoverable
  BY <1>2, LifeKept DEF Recover, Record
<1> QED
  BY <1>1, <1>2

\* Every attempt keeps its life.
LEMMA LifeAlways == Spec => [](\A a \in Attempts : Life(a))
<1> DEFINE Lives == \A a \in Attempts : Life(a)
<1>1. Init => Lives
  BY DEF Init, Life, NoRow, NoBill, NoFix, NoCost, Settled, Called
<1>2. TypeOK /\ Lives /\ [Next]_vars => Lives'
  <2> SUFFICES ASSUME TypeOK, Lives, [Next]_vars, NEW b \in Attempts
               PROVE  Life(b)'
    OBVIOUS
  <2>1. ASSUME NEW a \in Attempts, Attempt(a)
        PROVE  Life(b)'
    <3>1. CASE a = b
      BY <2>1, <3>1, LifeStep
    <3>2. CASE a # b
      BY <2>1, <3>2, OneRowMoves, LifeKept
    <3> QED
      BY <3>1, <3>2
  <2>2. ASSUME NEW s \in Sessions, Seal(s)
        PROVE  Life(b)'
    BY <2>2, LifeKept DEF Seal, Record, durable
  <2>3. CASE Crash
    BY <2>3, LifeKept DEF Crash, Record, durable
  <2>4. CASE Recover
    BY <2>4, LifeRecovered
  <2>5. CASE UNCHANGED vars
    BY <2>5, LifeKept DEF vars, Record
  <2> QED
    BY <2>1, <2>2, <2>3, <2>4, <2>5 DEF Next
<1> QED
  BY <1>1, <1>2, TypeCorrect, PTL DEF Spec

\* An attempt whose claim was never consumed costs nothing, for every schedule
\* of crashes, recoveries, receipts and corrections (claim, consume, recover).
THEOREM BurnedClaimsOnly == Spec => []OnlyBurnedClaimsCost
<1>1. (\A a \in Attempts : Life(a)) => OnlyBurnedClaimsCost
  BY DEF Life, OnlyBurnedClaimsCost
<1> QED
  BY <1>1, LifeAlways, PTL

\* Only a running process takes a step of an attempt.
LEMMA RunningOnly == ASSUME NEW a \in Attempts, Attempt(a) PROVE up
BY Zenon DEF Attempt, Admit, Claim, Consume, MarkCostDispatch, CallProvider, Settle, SettleVoice, SettleComponent,
       ObserveComponent, ObserveCost, ReconcileCost, ReconcileVoice, ExtendVoice, RetainVoiceExposure, ReleaseCredits

\* Recovery never makes a call that reached its provider free (recover()).
THEOREM LiabilitySurvives == Spec => RecoveryKeepsLiability
<1> DEFINE Lives == \A a \in Attempts : Life(a)
           Liability == \A a \in Attempts : ~up /\ up' /\ a \in Recoverable /\ Called(a) =>
                           /\ bill'[a].outcome # "cancelled"
                           /\ bill'[a].micro = cost[a].charged \/ bill'[a].micro >= row[a].max
<1>1. TypeOK /\ Lives /\ [Next]_vars => [Liability]_vars
  <2> SUFFICES ASSUME TypeOK, Lives, Next, NEW a \in Attempts, ~up, up', a \in Recoverable, Called(a)
               PROVE  /\ bill'[a].outcome # "cancelled"
                      /\ bill'[a].micro = cost[a].charged \/ bill'[a].micro >= row[a].max
    OBVIOUS
  <2>1. Recover
    BY RunningOnly DEF Next, Seal, Crash
  <2>2. Liable(a)
    BY DEF Life, Liable, Recoverable, Open, Called, TypeOK, Row
  <2>3. bill'[a] = RecoveredBill(a)
    BY <2>1 DEF Recover
  <2>4. bill'[a].outcome # "cancelled" /\ bill'[a].micro = RecoveredMicro(a)
    BY <2>2, <2>3 DEF RecoveredBill, TypeOK, Bill
  <2> QED
    BY <2>2, <2>4, FullExposureFacts DEF RecoveredMicro
<1> QED
  BY <1>1, TypeCorrect, LifeAlways, PTL DEF Spec, RecoveryKeepsLiability

-----------------------------------------------------------------------------
(* What a settlement charges, and what is posted to it afterwards *)

\* Nothing is charged, extended, observed or corrected of an attempt that was not
\* admitted; usage is observed of components only; each correction starts where
\* the one before it ended; and the charge covers what is known to be used.
Charge(a) ==
  /\ row[a].state = "none" =>
       row[a].max = 0 /\ row[a].vmax = 0 /\ ~row[a].closing
  /\ observed[a] > 0 => a \in Component /\ row[a].state \in {"dispatched", "settled"}
  /\ ~Settled(a) => audit[a] = <<>>
  /\ LET h == audit[a] IN
       /\ h # <<>> <=> fix[a].kind # "none"
       /\ h # <<>> => h[Len(h)].new = bill[a].micro /\ h[Len(h)].vnew = bill[a].vmicro
       /\ \A i \in 1 .. Len(h) - 1 : h[i].new = h[i + 1].old /\ h[i].vnew = h[i + 1].vold
  /\ a \in Component /\ Settled(a) /\ reach[a] # "unsent" => bill[a].micro >= observed[a]
  /\ a \in Voice \cup Component /\ Settled(a) /\ bill[a].outcome = "uncertain" /\ fix[a].kind = "none" =>
       /\ bill[a].micro >= row[a].max /\ bill[a].micro >= row[a].exposure
       /\ bill[a].vmicro >= row[a].vmax /\ bill[a].vmicro >= row[a].vexposure

\* Only the record of an attempt and how far it got decide what it is charged.
LEMMA ChargeKept ==
  ASSUME NEW a \in Attempts, Charge(a), Record(a)' = Record(a), reach'[a] = reach[a]
  PROVE  Charge(a)'
BY DEF Charge, Record, Settled

\* A settlement keeps the audit empty and charges what is owed.
LEMMA ChargeSettled ==
  ASSUME TypeOK, TypeOK', NEW a \in Attempts, Life(a), Charge(a), ~Settled(a), row[a].state # "none",
         row'[a] = [row[a] EXCEPT !.state = "settled"],
         reach'[a] = reach[a], fix'[a] = fix[a], audit'[a] = audit[a],
         observed'[a] > 0 => a \in Component,
         a \in Component /\ reach[a] # "unsent" => bill'[a].micro >= observed'[a],
         a \in Voice \cup Component /\ bill'[a].outcome = "uncertain" =>
           /\ bill'[a].micro >= row[a].max /\ bill'[a].micro >= row[a].exposure
           /\ bill'[a].vmicro >= row[a].vmax /\ bill'[a].vmicro >= row[a].vexposure
  PROVE  Charge(a)'
<1>1. /\ row'[a].state = "settled" /\ row'[a].max = row[a].max /\ row'[a].vmax = row[a].vmax
      /\ row'[a].exposure = row[a].exposure /\ row'[a].vexposure = row[a].vexposure
  BY DEF TypeOK, Row
<1> QED
  BY <1>1 DEF Charge, Life, Settled

\* A posted correction continues the chain and ends it in the new charge.
LEMMA ChargePosted ==
  ASSUME TypeOK, NEW a \in Attempts, Charge(a), Settled(a), NEW c \in Nat, NEW v \in Nat,
         a \notin Component,
         row'[a] = row[a], observed'[a] = observed[a], reach'[a] = reach[a],
         bill'[a].micro = c, bill'[a].vmicro = v, fix'[a].kind # "none",
         audit'[a] = Append(audit[a], Correction(a, c, v))
  PROVE  Charge(a)'
<1> DEFINE h == audit[a]
           e == Correction(a, c, v)
           g == Append(h, e)
<1>1. h \in Seq(CorrectionRecord) /\ e \in CorrectionRecord
  BY Fields DEF TypeOK, Correction, CorrectionRecord
<1>2. e.new = c /\ e.vnew = v /\ e.old = bill[a].micro /\ e.vold = bill[a].vmicro
  BY DEF Correction
<1>3. h # <<>> => h[Len(h)].new = bill[a].micro /\ h[Len(h)].vnew = bill[a].vmicro
  BY DEF Charge
<1>4. \A i \in 1 .. Len(h) - 1 : h[i].new = h[i + 1].old /\ h[i].vnew = h[i + 1].vold
  BY DEF Charge
<1> HIDE DEF h, e
<1>5. g # <<>> /\ Len(g) = Len(h) + 1 /\ g[Len(g)] = e /\ \A i \in 1 .. Len(h) : g[i] = h[i]
  BY <1>1, AppendProperties
<1>6. ASSUME NEW i \in 1 .. Len(g) - 1
      PROVE  g[i].new = g[i + 1].old /\ g[i].vnew = g[i + 1].vold
  <2>0. Len(h) \in Nat /\ i \in 1 .. Len(h)
    BY <1>1, <1>5
  <2>1. CASE i = Len(h)
    <3>1. h # <<>>
      BY <2>0, <2>1, <1>1
    <3> QED
      BY <2>0, <2>1, <3>1, <1>2, <1>3, <1>5
  <2>2. CASE i # Len(h)
    <3>1. i \in 1 .. Len(h) - 1 /\ i + 1 \in 1 .. Len(h)
      BY <2>0, <2>2
    <3> QED
      BY <3>1, <2>0, <1>4, <1>5
  <2> QED
    BY <2>1, <2>2
<1>7. audit'[a] = g
  BY DEF h, e
<1> HIDE DEF g
<1> QED
  BY <1>2, <1>5, <1>6, <1>7 DEF Charge, Settled

\* Each operation of an attempt keeps what it is charged consistent.
LEMMA ChargeStep ==
  ASSUME TypeOK, TypeOK', NEW a \in Attempts, Life(a), Charge(a), Attempt(a)
  PROVE  Charge(a)'
<1> USE DEF Settled
<1>1. ASSUME NEW q \in Quotes, Admit(a, q) PROVE Charge(a)'
  BY <1>1 DEF Admit, TypeOK, Charge, Life
<1>2. CASE Claim(a)
  BY <1>2 DEF Claim, TypeOK, Row, Charge, Life
<1>3. CASE Consume(a)
  <2>1. \/ row[a].state = "claimed" /\ row'[a] = [row[a] EXCEPT !.state = "dispatched"]
        \/ UNCHANGED <<row, reach>>
    BY <1>3 DEF Consume, TypeOK
  <2>2. UNCHANGED <<bill, observed, fix, audit>>
    BY <1>3 DEF Consume
  <2>3. CASE UNCHANGED <<row, reach>>
    BY <2>2, <2>3 DEF Charge
  <2>4. CASE row[a].state = "claimed" /\ row'[a] = [row[a] EXCEPT !.state = "dispatched"]
    BY <2>2, <2>4 DEF Charge, TypeOK, Row
  <2> QED
    BY <2>1, <2>3, <2>4
<1>4. CASE MarkCostDispatch(a)
  BY <1>4 DEF MarkCostDispatch, TypeOK, Charge
<1>5. CASE CallProvider(a)
  BY <1>5 DEF CallProvider, TypeOK, Charge
<1>6. ASSUME NEW o \in Reports, NEW c \in Reported, NEW e \in BOOLEAN, Settle(a, o, c, e)
      PROVE  Charge(a)'
  <2>1. CASE Sealed(a)
    BY <1>6, <2>1, ChargeKept DEF Settle, durable, Record
  <2>2. CASE ~Sealed(a)
    <3>1. row'[a] = [row[a] EXCEPT !.state = "settled"] /\ UNCHANGED <<reach, fix, audit, observed>>
      BY <1>6, <2>2 DEF Settle, TypeOK
    <3>2. row[a].state \in {"claimed", "dispatched"} /\ a \notin Voice \cup Component
      BY <1>6 DEF Settle, Claimed
    <3>3. ~(observed'[a] > 0)
      BY <3>1, <3>2 DEF Charge
    <3> QED
      BY <3>1, <3>2, <3>3, ChargeSettled
  <2> QED
    BY <2>1, <2>2
<1>7. ASSUME NEW o \in Reports, NEW c \in Reported, NEW v \in Charges, NEW e \in BOOLEAN,
             SettleVoice(a, o, c, v, e)
      PROVE  Charge(a)'
  <2>1. CASE Sealed(a)
    BY <1>7, <2>1, ChargeKept DEF SettleVoice, durable, Record
  <2>2. CASE ~Sealed(a)
    <3> DEFINE reported == IF c = NoAmount THEN 0 ELSE c
    <3>1. row'[a] = [row[a] EXCEPT !.state = "settled"] /\ UNCHANGED <<reach, fix, audit, observed>>
      BY <1>7, <2>2 DEF SettleVoice, TypeOK
    <3>2. row[a].state \in {"claimed", "dispatched"} /\ a \in Voice /\ a \notin Component
      BY <1>7 DEF SettleVoice, Claimed, Voice, Component
    <3>3. ~(observed'[a] > 0)
      BY <3>1, <3>2 DEF Charge
    <3>4. bill'[a].outcome = "uncertain" =>
             /\ bill'[a].micro = Larger(FullExposure(a), reported)
             /\ bill'[a].vmicro = Larger(row[a].vmax, row[a].vexposure)
      BY <1>7, <2>2 DEF SettleVoice, Terminal, TypeOK
    <3>5. reported \in Nat /\ FullExposure(a) \in Nat
      BY InputTypes, FullExposureFacts
    <3>6. Larger(FullExposure(a), reported) >= FullExposure(a) /\ Larger(FullExposure(a), reported) \in Nat
      BY <3>5, LargerFacts
    <3>7. FullExposure(a) >= row[a].max /\ FullExposure(a) >= row[a].exposure
      BY <3>2, Fields, LargerFacts DEF FullExposure
    <3>8. /\ Larger(row[a].vmax, row[a].vexposure) >= row[a].vmax
          /\ Larger(row[a].vmax, row[a].vexposure) >= row[a].vexposure
      BY Fields, LargerFacts
    <3>9. bill'[a].outcome = "uncertain" =>
             /\ bill'[a].micro >= row[a].max /\ bill'[a].micro >= row[a].exposure
             /\ bill'[a].vmicro >= row[a].vmax /\ bill'[a].vmicro >= row[a].vexposure
      <4> HIDE DEF reported
      <4> QED
        BY <3>4, <3>5, <3>6, <3>7, <3>8, Fields
    <3> QED
      BY <3>1, <3>2, <3>3, <3>9, ChargeSettled
  <2> QED
    BY <2>1, <2>2
<1>8. ASSUME NEW o \in Reports, NEW u \in Reported, NEW c \in Reported, SettleComponent(a, o, u, c)
      PROVE  Charge(a)'
  <2> DEFINE seen == Larger(observed[a], IF u = NoAmount THEN 0 ELSE u)
             full == Larger(Larger(row[a].max, seen), IF c = NoAmount THEN 0 ELSE c)
  <2>1. row'[a] = [row[a] EXCEPT !.state = "settled"] /\ UNCHANGED <<reach, fix, audit>>
    BY <1>8 DEF SettleComponent, TypeOK
  <2>2. row[a].state \in {"claimed", "dispatched"} /\ a \in Component /\ a \notin Voice
    BY <1>8 DEF SettleComponent, Claimed, Voice, Component
  <2>3. /\ u # NoAmount => u \in Nat
        /\ c # NoAmount => c \in Nat
    BY InputTypes
  <2>4. seen \in Nat /\ seen >= observed[a] /\ (u # NoAmount => seen >= u)
    BY <2>3, Fields, LargerFacts
  <2>5. full \in Nat /\ full >= row[a].max /\ full >= seen
    <3> HIDE DEF seen
    <3>1. /\ Larger(row[a].max, seen) \in Nat
          /\ Larger(row[a].max, seen) >= row[a].max /\ Larger(row[a].max, seen) >= seen
      BY <2>4, Fields, LargerFacts
    <3>2. full \in Nat /\ full >= Larger(row[a].max, seen)
      BY <2>3, <3>1, LargerFacts
    <3> HIDE DEF full
    <3> QED
      BY <2>4, <3>1, <3>2, Fields
  <2>6. /\ observed'[a] = seen
        /\ row[a].state # "dispatched" => bill'[a].outcome = "cancelled"
        /\ row[a].state = "dispatched" /\ o # "uncertain" =>
             u # NoAmount /\ u >= observed[a] /\ bill'[a].micro = u /\ bill'[a].outcome = o
        /\ row[a].state = "dispatched" /\ o = "uncertain" => bill'[a].micro = full /\ bill'[a].outcome = o
        /\ bill'[a].vmicro = 0
    BY <1>8 DEF SettleComponent, Terminal, TypeOK
  <2>7. row[a].state = "dispatched" /\ o # "uncertain" => seen = u
    BY <2>3, <2>6, Fields DEF Larger
  <2> HIDE DEF seen, full
  <2>8. reach[a] # "unsent" => row[a].state = "dispatched"
    BY <2>2 DEF Life
  <2>9. reach[a] # "unsent" => bill'[a].micro >= observed'[a]
    BY <2>3, <2>4, <2>5, <2>6, <2>7, <2>8
  <2>10. bill'[a].outcome = "uncertain" => bill'[a].micro = full /\ bill'[a].vmicro = 0
    BY <2>2, <2>6
  <2>11. row[a].exposure = 0 /\ row[a].vexposure = 0 /\ row[a].vmax = 0
    BY <2>2 DEF Life
  <2> QED
    BY <2>1, <2>2, <2>5, <2>9, <2>10, <2>11, Fields, ChargeSettled
<1>9. ASSUME NEW c \in Charges, ObserveComponent(a, c)
      PROVE  Charge(a)'
  BY <1>9 DEF ObserveComponent, TypeOK, Charge
<1>10. ASSUME NEW g \in Generations \cup {NoGeneration}, NEW c \in Reported, ObserveCost(a, g, c)
       PROVE  Charge(a)'
  <2>1. CASE Sealed(a)
    BY <1>10, <2>1, ChargeKept DEF ObserveCost, durable, Record
  <2>2. CASE ~Sealed(a)
    <3>1. row'[a] = row[a] /\ reach'[a] = reach[a] /\ observed'[a] = observed[a] /\ a \notin Voice \cup Component
      BY <1>10, <2>2, LedgerAssumption DEF ObserveCost
    <3>2. \/ /\ Settled(a) /\ c # NoAmount /\ PostCost(a, "receipt", c)
          \/ UNCHANGED <<bill, fix, audit>>
      BY <1>10, <2>2 DEF ObserveCost
    <3>3. CASE Settled(a) /\ c # NoAmount /\ PostCost(a, "receipt", c)
      <4>1. c \in Nat /\ bill[a].vmicro \in Nat
        BY <3>3, InputTypes, Fields
      <4>2. /\ bill'[a].micro = c /\ bill'[a].vmicro = bill[a].vmicro /\ fix'[a].kind # "none"
            /\ audit'[a] = Append(audit[a], Correction(a, c, bill[a].vmicro))
        BY <3>3 DEF PostCost, Posted, TypeOK, Bill
      <4> QED
        BY <3>1, <3>3, <4>1, <4>2, ChargePosted
    <3>4. CASE UNCHANGED <<bill, fix, audit>>
      BY <3>1, <3>4 DEF Charge
    <3> QED
      BY <3>2, <3>3, <3>4
  <2> QED
    BY <2>1, <2>2
<1>11. ASSUME NEW k \in {"estimate", "receipt"}, NEW c \in Charges, ReconcileCost(a, k, c)
       PROVE  Charge(a)'
  <2>1. CASE Sealed(a)
    BY <1>11, <2>1, ChargeKept DEF ReconcileCost, durable, Record
  <2>2. CASE ~Sealed(a)
    <3>1. /\ row'[a] = row[a] /\ reach'[a] = reach[a] /\ observed'[a] = observed[a]
          /\ a \notin Component /\ Settled(a) /\ PostCost(a, k, c)
      BY <1>11, <2>2, LedgerAssumption DEF ReconcileCost
    <3>2. c \in Nat /\ bill[a].vmicro \in Nat
      BY InputTypes, Fields
    <3>3. /\ bill'[a].micro = c /\ bill'[a].vmicro = bill[a].vmicro /\ fix'[a].kind # "none"
          /\ audit'[a] = Append(audit[a], Correction(a, c, bill[a].vmicro))
      BY <3>1 DEF PostCost, Posted, TypeOK, Bill
    <3> QED
      BY <3>1, <3>2, <3>3, ChargePosted
  <2> QED
    BY <2>1, <2>2
<1>12. ASSUME NEW k \in {"estimate", "receipt"}, NEW c \in Charges, NEW v \in Charges,
              ReconcileVoice(a, k, c, v)
       PROVE  Charge(a)'
  <2>1. CASE Sealed(a)
    BY <1>12, <2>1, ChargeKept DEF ReconcileVoice, durable, Record
  <2>2. CASE ~Sealed(a)
    <3>1. /\ row'[a] = row[a] /\ reach'[a] = reach[a] /\ observed'[a] = observed[a]
          /\ a \notin Component /\ Settled(a)
      BY <1>12, <2>2 DEF ReconcileVoice, Voice, Component
    <3>2. c \in Nat /\ v \in Nat
      BY InputTypes
    <3>3. /\ bill'[a].micro = c /\ bill'[a].vmicro = v /\ fix'[a].kind # "none"
          /\ audit'[a] = Append(audit[a], Correction(a, c, v))
      BY <1>12, <2>2 DEF ReconcileVoice, Posted, TypeOK, Bill
    <3> QED
      BY <3>1, <3>2, <3>3, ChargePosted
  <2> QED
    BY <2>1, <2>2
<1>13. ASSUME NEW e \in Extensions, ExtendVoice(a, e)
       PROVE  Charge(a)'
  BY <1>13 DEF ExtendVoice, TypeOK, Row, Charge
<1>14. CASE RetainVoiceExposure(a)
  BY <1>14 DEF RetainVoiceExposure, TypeOK, Row, Charge
<1>15. CASE ReleaseCredits(a)
  BY <1>15 DEF ReleaseCredits, TypeOK, Bill, Charge
<1> QED
  BY <1>1, <1>2, <1>3, <1>4, <1>5, <1>6, <1>7, <1>8, <1>9, <1>10, <1>11, <1>12, <1>13, <1>14, <1>15
  DEF Attempt

\* Recovery charges what is owed too.
LEMMA ChargeRecovered ==
  ASSUME TypeOK, TypeOK', NEW a \in Attempts, Life(a), Charge(a), Recover
  PROVE  Charge(a)'
<1>1. CASE a \in Recoverable
  <2>1. /\ row'[a] = [row[a] EXCEPT !.state = "settled"]
        /\ bill'[a] = RecoveredBill(a)
        /\ fix'[a] = fix[a] /\ reach'[a] = reach[a] /\ audit'[a] = audit[a] /\ observed'[a] = observed[a]
    BY <1>1 DEF Recover
  <2>2. ~Settled(a) /\ row[a].state # "none"
    BY <1>1 DEF Recoverable, Open, Settled
  <2>3. observed[a] > 0 => a \in Component
    BY DEF Charge
  <2>4. a \in Component => a \notin CostBacked /\ a \notin Voice
    BY LedgerAssumption DEF Component, Voice
  <2>5. /\ bill'[a].outcome = "uncertain" => Liable(a)
        /\ ~Receipted(a) /\ Liable(a) => bill'[a].micro = FullExposure(a)
        /\ Liable(a) => bill'[a].vmicro = Larger(row[a].vmax, row[a].vexposure)
        /\ bill'[a].outcome = "uncertain" => ~Receipted(a)
    BY <2>1 DEF RecoveredBill, RecoveredMicro, TypeOK, Bill
  <2>6. /\ FullExposure(a) >= row[a].max
        /\ a \in Voice => FullExposure(a) >= row[a].exposure
        /\ a \notin Voice => FullExposure(a) >= observed[a]
    BY Fields, LargerFacts, FullExposureFacts DEF FullExposure
  <2>7. /\ Larger(row[a].vmax, row[a].vexposure) >= row[a].vmax
        /\ Larger(row[a].vmax, row[a].vexposure) >= row[a].vexposure
    BY Fields, LargerFacts
  <2>8. a \in Component /\ reach[a] # "unsent" => Liable(a) /\ ~Receipted(a)
    BY <1>1, <2>4 DEF Life, Liable, Receipted, Recoverable, Open
  <2>9. a \in Component => row[a].exposure = 0
    BY DEF Life
  <2>10. a \in Component /\ reach[a] # "unsent" => bill'[a].micro >= observed'[a]
    BY <2>1, <2>4, <2>5, <2>6, <2>8
  <2>11. a \in Voice \cup Component /\ bill'[a].outcome = "uncertain" =>
           /\ bill'[a].micro >= row[a].max /\ bill'[a].micro >= row[a].exposure
           /\ bill'[a].vmicro >= row[a].vmax /\ bill'[a].vmicro >= row[a].vexposure
    BY <2>5, <2>6, <2>7, <2>9, Fields, FullExposureFacts
  <2> QED
    BY <2>1, <2>2, <2>3, <2>10, <2>11, ChargeSettled
<1>2. CASE a \notin Recoverable
  BY <1>2, ChargeKept DEF Recover, Record
<1> QED
  BY <1>1, <1>2

\* Every attempt's charge stays consistent.
LEMMA ChargeAlways == Spec => [](\A a \in Attempts : Charge(a))
<1> DEFINE Lives == \A a \in Attempts : Life(a)
           Charged == \A a \in Attempts : Charge(a)
<1>1. Init => Charged
  BY DEF Init, Charge, NoRow, NoBill, NoFix, Settled
<1>2. TypeOK /\ TypeOK' /\ Lives /\ Charged /\ [Next]_vars => Charged'
  <2> SUFFICES ASSUME TypeOK, TypeOK', Lives, Charged, [Next]_vars, NEW b \in Attempts
               PROVE  Charge(b)'
    OBVIOUS
  <2>1. ASSUME NEW a \in Attempts, Attempt(a)
        PROVE  Charge(b)'
    <3>1. CASE a = b
      BY <2>1, <3>1, ChargeStep
    <3>2. CASE a # b
      BY <2>1, <3>2, OneRowMoves, ChargeKept
    <3> QED
      BY <3>1, <3>2
  <2>2. ASSUME NEW s \in Sessions, Seal(s)
        PROVE  Charge(b)'
    BY <2>2, ChargeKept DEF Seal, Record, durable
  <2>3. CASE Crash
    BY <2>3, ChargeKept DEF Crash, Record, durable
  <2>4. CASE Recover
    BY <2>4, ChargeRecovered
  <2>5. CASE UNCHANGED vars
    BY <2>5, ChargeKept DEF vars, Record
  <2> QED
    BY <2>1, <2>2, <2>3, <2>4, <2>5 DEF Next
<1> QED
  BY <1>1, <1>2, TypeCorrect, LifeAlways, PTL DEF Spec

\* The append-only corrections of an attempt lead, one after the other, from its
\* settlement to the charge on its row (budget_corrections, PostCost).
THEOREM AuditTrail == Spec => []AuditReconstructs
<1>1. (\A a \in Attempts : Charge(a)) => AuditReconstructs
  BY DEF Charge, AuditReconstructs
<1> QED
  BY <1>1, ChargeAlways, PTL

\* On whichever path a component is settled, recovery included, it is charged for
\* the usage already observed (settleComponent, recover).
THEOREM ObservedUsageCharged == Spec => []ObservedUsageKept
<1>1. (\A a \in Attempts : Charge(a)) => ObservedUsageKept
  BY DEF Charge, ObservedUsageKept, Component
<1> QED
  BY <1>1, ChargeAlways, PTL

\* A call or component nobody confirmed keeps its whole maximum and exposure until
\* its provider's own account arrives (settleVoice, settleComponent, recover).
THEOREM UnconfirmedInFull == Spec => []UnconfirmedChargedInFull
<1>1. (\A a \in Attempts : Charge(a)) => UnconfirmedChargedInFull
  BY DEF Charge, UnconfirmedChargedInFull, Component, Voice
<1> QED
  BY <1>1, ChargeAlways, PTL

-----------------------------------------------------------------------------
(* A terminal and a receipt are final *)

\* What a step may do to the settlement of an attempt.
Final(a) ==
  /\ Settled(a) => row'[a].state = "settled" /\ bill'[a].outcome = bill[a].outcome
  /\ fix[a].kind = "receipt" => fix'[a] = fix[a] /\ bill'[a].micro = bill[a].micro
  /\ fix[a].kind = "estimate" => fix'[a].kind # "none"
  /\ fix[a].kind = "estimate" /\ fix'[a].kind = "estimate" => fix'[a].micro >= fix[a].micro

\* A step that leaves the settlement alone.
LEMMA FinalKept ==
  ASSUME TypeOK, NEW a \in Attempts, Settled(a) => row'[a].state = "settled",
         bill'[a].outcome = bill[a].outcome, bill'[a].micro = bill[a].micro, fix'[a] = fix[a]
  PROVE  Final(a)
<1>1. fix[a] \in Fix
  BY DEF TypeOK
<1>2. fix[a].micro \in Nat
  BY <1>1 DEF Fix
<1> QED
  BY <1>2 DEF Final

\* A step that settles an attempt: it was not settled and nothing was posted.
LEMMA FinalFirst ==
  ASSUME NEW a \in Attempts, Life(a), row[a].state \in {"none", "admitted", "claimed", "dispatched"}
  PROVE  Final(a)
BY DEF Life, Settled, Final

\* Accepted evidence supersedes an estimate only.
LEMMA FinalPosted ==
  ASSUME TypeOK, NEW a \in Attempts, NEW k \in {"estimate", "receipt"}, NEW c \in Nat,
         row'[a] = row[a], CostAccepted(a, k, c), PostCost(a, k, c)
  PROVE  Final(a)
<1>1. fix'[a] = [kind |-> k, micro |-> c, vmicro |-> 0] /\ bill'[a].outcome = bill[a].outcome
  BY DEF PostCost, Posted, TypeOK, Bill
<1>2. fix[a].micro \in Nat
  BY Fields DEF Fix
<1> QED
  BY <1>1, <1>2 DEF Final, CostAccepted, Settled

\* Each operation respects what is final.
LEMMA FinalStep ==
  ASSUME TypeOK, NEW a \in Attempts, Life(a), Attempt(a)
  PROVE  Final(a)
<1>1. ASSUME NEW q \in Quotes, Admit(a, q) PROVE Final(a)
  BY <1>1, FinalFirst DEF Admit
<1>2. CASE Claim(a)
  BY <1>2, FinalFirst DEF Claim
<1>3. CASE Consume(a)
  BY <1>3, FinalKept DEF Consume, TypeOK, Settled
<1>4. CASE MarkCostDispatch(a) \/ CallProvider(a)
  BY <1>4, FinalKept DEF MarkCostDispatch, CallProvider, Settled
<1>5. ASSUME NEW o \in Reports, NEW c \in Reported, NEW e \in BOOLEAN, Settle(a, o, c, e)
      PROVE  Final(a)
  BY <1>5, FinalFirst DEF Settle, Claimed
<1>6. ASSUME NEW o \in Reports, NEW c \in Reported, NEW v \in Charges, NEW e \in BOOLEAN,
             SettleVoice(a, o, c, v, e)
      PROVE  Final(a)
  BY <1>6, FinalFirst DEF SettleVoice, Claimed
<1>7. ASSUME NEW o \in Reports, NEW u \in Reported, NEW c \in Reported, SettleComponent(a, o, u, c)
      PROVE  Final(a)
  BY <1>7, FinalFirst DEF SettleComponent, Claimed
<1>8. ASSUME NEW c \in Charges, ObserveComponent(a, c)
      PROVE  Final(a)
  BY <1>8, FinalFirst DEF ObserveComponent
<1>9. ASSUME NEW g \in Generations \cup {NoGeneration}, NEW c \in Reported, ObserveCost(a, g, c)
      PROVE  Final(a)
  <2>1. row'[a] = row[a]
    BY <1>9 DEF ObserveCost, durable
  <2>2. \/ c # NoAmount /\ CostAccepted(a, "receipt", c) /\ PostCost(a, "receipt", c)
        \/ UNCHANGED <<bill, fix>>
    BY <1>9 DEF ObserveCost, durable
  <2>3. c # NoAmount => c \in Nat
    BY InputTypes
  <2>4. CASE UNCHANGED <<bill, fix>>
    BY <2>1, <2>4, FinalKept DEF Settled
  <2> QED
    BY <2>1, <2>2, <2>3, <2>4, FinalPosted
<1>10. ASSUME NEW k \in {"estimate", "receipt"}, NEW c \in Charges, ReconcileCost(a, k, c)
       PROVE  Final(a)
  <2>1. row'[a] = row[a] /\ c \in Nat
    BY <1>10, InputTypes DEF ReconcileCost, durable
  <2>2. \/ CostAccepted(a, k, c) /\ PostCost(a, k, c)
        \/ UNCHANGED <<bill, fix>>
    BY <1>10 DEF ReconcileCost, durable
  <2>3. CASE UNCHANGED <<bill, fix>>
    BY <2>1, <2>3, FinalKept DEF Settled
  <2> QED
    BY <2>1, <2>2, <2>3, FinalPosted
<1>11. ASSUME NEW k \in {"estimate", "receipt"}, NEW c \in Charges, NEW v \in Charges,
              ReconcileVoice(a, k, c, v)
       PROVE  Final(a)
  <2>1. CASE Sealed(a)
    BY <1>11, <2>1, FinalKept DEF ReconcileVoice, durable, Settled
  <2>2. CASE ~Sealed(a)
    <3>1. row'[a] = row[a] /\ bill'[a].outcome = bill[a].outcome
      BY <1>11, <2>2 DEF ReconcileVoice, Posted, TypeOK, Bill
    <3>2. /\ fix[a].kind # "receipt"
          /\ fix[a].kind = "estimate" => k = "receipt"
          /\ fix'[a].kind = k
      BY <1>11, <2>2 DEF ReconcileVoice, TypeOK
    <3> QED
      BY <3>1, <3>2 DEF Final, Settled
  <2> QED
    BY <2>1, <2>2
<1>12. ASSUME NEW e \in Extensions, ExtendVoice(a, e)
       PROVE  Final(a)
  BY <1>12, FinalFirst DEF ExtendVoice
<1>13. CASE RetainVoiceExposure(a)
  BY <1>13, FinalFirst DEF RetainVoiceExposure
<1>14. CASE ReleaseCredits(a)
  BY <1>14, FinalKept DEF ReleaseCredits, TypeOK, Bill, Settled
<1> QED
  BY <1>1, <1>2, <1>3, <1>4, <1>5, <1>6, <1>7, <1>8, <1>9, <1>10, <1>11, <1>12, <1>13, <1>14
  DEF Attempt

\* No step of any attempt, no crash and no recovery changes a terminal, moves a
\* receipt, or replaces an estimate by a smaller one (settle, CostAccepted).
THEOREM ReceiptsFinal == Spec => ReceiptFinality
<1> DEFINE Lives == \A a \in Attempts : Life(a)
           Finals == \A a \in Attempts : Final(a)
<1>1. TypeOK /\ Lives /\ [Next]_vars => [Finals]_vars
  <2> SUFFICES ASSUME TypeOK, Lives, Next, NEW b \in Attempts
               PROVE  Final(b)
    OBVIOUS
  <2>1. ASSUME NEW a \in Attempts, Attempt(a)
        PROVE  Final(b)
    <3>1. CASE a = b
      BY <2>1, <3>1, FinalStep
    <3>2. CASE a # b
      <4>1. Record(b)' = Record(b)
        BY <2>1, <3>2, OneRowMoves
      <4> QED
        BY <4>1, FinalKept DEF Record, Settled
    <3> QED
      BY <3>1, <3>2
  <2>2. ASSUME NEW s \in Sessions, Seal(s)
        PROVE  Final(b)
    BY <2>2, FinalKept DEF Seal, durable, Settled
  <2>3. CASE Crash
    BY <2>3, FinalKept DEF Crash, durable, Settled
  <2>4. CASE Recover
    <3>1. CASE b \in Recoverable
      BY <3>1, FinalFirst DEF Recoverable, Open
    <3>2. CASE b \notin Recoverable
      BY <2>4, <3>2, FinalKept DEF Recover, Settled
    <3> QED
      BY <3>1, <3>2
  <2> QED
    BY <2>1, <2>2, <2>3, <2>4 DEF Next
<1>2. Finals => \A a \in Attempts :
        /\ Settled(a) => row'[a].state = "settled" /\ bill'[a].outcome = bill[a].outcome
        /\ fix[a].kind = "receipt" => fix'[a] = fix[a] /\ bill'[a].micro = bill[a].micro
        /\ fix[a].kind = "estimate" => fix'[a].kind # "none"
        /\ fix[a].kind = "estimate" /\ fix'[a].kind = "estimate" => fix'[a].micro >= fix[a].micro
  BY DEF Final
<1> QED
  BY <1>1, <1>2, TypeCorrect, LifeAlways, PTL DEF Spec, ReceiptFinality

-----------------------------------------------------------------------------
(* The caps of a conversation *)

\* What an attempt takes from the caps is an amount.
LEMMA HeldType ==
  ASSUME TypeOK, NEW a \in Attempts
  PROVE  Held(a) \in Nat /\ VHeld(a) \in Nat
BY Fields, LargerFacts DEF Held, VHeld

\* So it is after a step.
LEMMA HeldTypeNext ==
  ASSUME TypeOK', NEW a \in Attempts
  PROVE  /\ Held(a)' \in Nat /\ VHeld(a)' \in Nat
         /\ row'[a].max \in Nat /\ row'[a].vmax \in Nat /\ observed'[a] \in Nat
         /\ bill'[a].micro \in Nat /\ bill'[a].vmicro \in Nat
<1>1. row'[a] \in Row /\ bill'[a] \in Bill /\ observed'[a] \in Nat
  BY DEF TypeOK
<1>2. /\ row'[a].max \in Nat /\ row'[a].vmax \in Nat
      /\ bill'[a].micro \in Nat /\ bill'[a].vmicro \in Nat
  BY <1>1 DEF Row, Bill
<1> QED
  BY <1>1, <1>2, LargerFacts DEF Held, VHeld

\* A posted correction leaves a trail.
LEMMA PostedTrail ==
  ASSUME TypeOK, NEW a \in Attempts, NEW c \in Nat, NEW v \in Nat,
         audit'[a] = Append(audit[a], Correction(a, c, v))
  PROVE  Surprised(a)'
<1>1. audit[a] \in Seq(CorrectionRecord) /\ Correction(a, c, v) \in CorrectionRecord
  BY Fields DEF TypeOK, Correction, CorrectionRecord
<1>2. audit'[a] # <<>>
  BY <1>1, AppendProperties
<1> QED
  BY <1>2 DEF Surprised

\* Moving on before the settlement takes no more.
LEMMA HeldMoved ==
  ASSUME TypeOK, NEW a \in Attempts, NEW x \in {"claimed", "dispatched"}, ~Settled(a), ~Surprised(a)',
         row'[a] = [row[a] EXCEPT !.state = x],
         bill'[a] = bill[a], observed'[a] = observed[a], audit'[a] = audit[a]
  PROVE  ~Surprised(a) /\ Held(a)' <= Held(a) /\ VHeld(a)' <= VHeld(a)
<1>1. /\ row'[a].state = x /\ row'[a].max = row[a].max /\ row'[a].vmax = row[a].vmax
      /\ row'[a].closing = row[a].closing
  BY DEF TypeOK, Row
<1>2. Held(a)' = Held(a) /\ VHeld(a)' = VHeld(a)
  BY <1>1 DEF Held, VHeld, Settled
<1> QED
  BY <1>1, <1>2, HeldType DEF Surprised

\* The attempts of a conversation are finitely many.
LEMMA SessionFinite ==
  ASSUME NEW s
  PROVE  /\ IsFiniteSet({a \in Attempts : SessionOf[a] = s})
         /\ IsFiniteSet({a \in Voice : SessionOf[a] = s})
<1>1. IsFiniteSet(Attempts)
  BY LedgerAssumption
<1>2. {a \in Attempts : SessionOf[a] = s} \in SUBSET Attempts
  OBVIOUS
<1>3. {a \in Voice : SessionOf[a] = s} \in SUBSET Attempts
  BY DEF Voice
<1> QED
  BY <1>1, <1>2, <1>3, FS_Subset

\* What is used is an amount.
LEMMA UsedType ==
  ASSUME TypeOK, NEW s
  PROVE  Used(s) \in Nat /\ VisitorUsed(s) \in Nat
<1>1. \A x \in {a \in Attempts : SessionOf[a] = s} : [a \in Attempts |-> Held(a)][x] \in Nat
  BY HeldType
<1>2. \A x \in {a \in Voice : SessionOf[a] = s} : [a \in Attempts |-> VHeld(a)][x] \in Nat
  BY HeldType DEF Voice
<1> QED
  BY <1>1, <1>2, SessionFinite, SumType DEF Used, VisitorUsed

\* So it is after a step.
LEMMA UsedTypeNext ==
  ASSUME TypeOK', NEW s
  PROVE  Used(s)' \in Nat /\ VisitorUsed(s)' \in Nat
<1> DEFINE A == {a \in Attempts : SessionOf[a] = s}
           V == {a \in Voice : SessionOf[a] = s}
           g == [a \in Attempts |-> Held(a)']
           vg == [a \in Attempts |-> VHeld(a)']
<1>1. (\A x \in A : g[x] \in Nat) /\ (\A x \in V : vg[x] \in Nat)
  BY HeldTypeNext DEF Voice
<1>2. IsFiniteSet(A) /\ IsFiniteSet(V)
  BY SessionFinite
<1>3. Used(s)' = SumFunctionOnSet(g, A) /\ VisitorUsed(s)' = SumFunctionOnSet(vg, V)
  BY DEF Used, VisitorUsed
<1> HIDE DEF A, V, g, vg
<1> QED
  BY <1>1, <1>2, <1>3, SumType

\* When no attempt of a conversation takes more, no more is used.
LEMMA UsedNoMore ==
  ASSUME TypeOK, TypeOK', NEW s,
         \A b \in Attempts : SessionOf[b] = s => Held(b)' <= Held(b) /\ VHeld(b)' <= VHeld(b)
  PROVE  Used(s)' <= Used(s) /\ VisitorUsed(s)' <= VisitorUsed(s)
<1> DEFINE A == {a \in Attempts : SessionOf[a] = s}
           V == {a \in Voice : SessionOf[a] = s}
           f == [a \in Attempts |-> Held(a)]
           g == [a \in Attempts |-> Held(a)']
           vf == [a \in Attempts |-> VHeld(a)]
           vg == [a \in Attempts |-> VHeld(a)']
<1>1. \A x \in A : g[x] \in Nat /\ f[x] \in Nat /\ g[x] <= f[x]
  BY HeldType, HeldTypeNext
<1>2. \A x \in V : vg[x] \in Nat /\ vf[x] \in Nat /\ vg[x] <= vf[x]
  BY HeldType, HeldTypeNext DEF Voice
<1>3. IsFiniteSet(A) /\ IsFiniteSet(V)
  BY SessionFinite
<1>4. /\ Used(s) = SumFunctionOnSet(f, A) /\ Used(s)' = SumFunctionOnSet(g, A)
      /\ VisitorUsed(s) = SumFunctionOnSet(vf, V) /\ VisitorUsed(s)' = SumFunctionOnSet(vg, V)
  BY DEF Used, VisitorUsed
<1> HIDE DEF A, V, f, g, vf, vg
<1> QED
  BY <1>1, <1>2, <1>3, <1>4, SumMonotone

\* When one attempt of a conversation takes more, as much more is used.
LEMMA UsedRises ==
  ASSUME TypeOK, TypeOK', NEW s, NEW a \in Attempts, SessionOf[a] = s,
         \A b \in Attempts : b # a => Held(b)' = Held(b) /\ VHeld(b)' = VHeld(b)
  PROVE  /\ Used(s)' + Held(a) = Used(s) + Held(a)'
         /\ a \in Voice => VisitorUsed(s)' + VHeld(a) = VisitorUsed(s) + VHeld(a)'
         /\ a \notin Voice => VisitorUsed(s)' = VisitorUsed(s)
<1> DEFINE A == {b \in Attempts : SessionOf[b] = s}
           V == {b \in Voice : SessionOf[b] = s}
           f == [b \in Attempts |-> Held(b)]
           g == [b \in Attempts |-> Held(b)']
           vf == [b \in Attempts |-> VHeld(b)]
           vg == [b \in Attempts |-> VHeld(b)']
<1>1. \A x \in A : g[x] \in Nat /\ f[x] \in Nat /\ (x # a => g[x] = f[x])
  BY HeldType, HeldTypeNext
<1>2. \A x \in V : vg[x] \in Nat /\ vf[x] \in Nat /\ (x # a => vg[x] = vf[x])
  BY HeldType, HeldTypeNext DEF Voice
<1>3. IsFiniteSet(A) /\ IsFiniteSet(V)
  BY SessionFinite
<1>4. /\ Used(s) = SumFunctionOnSet(f, A) /\ Used(s)' = SumFunctionOnSet(g, A)
      /\ VisitorUsed(s) = SumFunctionOnSet(vf, V) /\ VisitorUsed(s)' = SumFunctionOnSet(vg, V)
  BY DEF Used, VisitorUsed
<1>5. f[a] = Held(a) /\ g[a] = Held(a)' /\ vf[a] = VHeld(a) /\ vg[a] = VHeld(a)'
  OBVIOUS
<1>6. a \in A /\ (a \in Voice <=> a \in V)
  OBVIOUS
<1> HIDE DEF A, V, f, g, vf, vg
<1>7. SumFunctionOnSet(g, A) + f[a] = SumFunctionOnSet(f, A) + g[a]
  BY <1>1, <1>3, <1>6, SumChange
<1>8. a \in V => SumFunctionOnSet(vg, V) + vf[a] = SumFunctionOnSet(vf, V) + vg[a]
  BY <1>2, <1>3, SumChange
<1>9. a \notin V => SumFunctionOnSet(vg, V) = SumFunctionOnSet(vf, V)
  <2> HAVE a \notin V
  <2>1. \A x \in V : vg[x] = vf[x]
    BY <1>2
  <2> QED
    BY <2>1, <1>3, SumSame
<1> QED
  BY <1>4, <1>5, <1>6, <1>7, <1>8, <1>9

\* An attempt on which nothing changed, takes what it took.
LEMMA HeldKept ==
  ASSUME NEW a \in Attempts, Record(a)' = Record(a)
  PROVE  Held(a)' = Held(a) /\ VHeld(a)' = VHeld(a) /\ (Surprised(a)' <=> Surprised(a))
BY DEF Record, Held, VHeld, Surprised, Settled

\* A settlement within the maxima takes no more than the maxima did.
LEMMA HeldSettled ==
  ASSUME TypeOK, TypeOK', NEW a \in Attempts, Life(a), Charge(a), ~Settled(a),
         row'[a] = [row[a] EXCEPT !.state = "settled"],
         observed'[a] >= observed[a], audit'[a] = audit[a], ~Surprised(a)'
  PROVE  ~Surprised(a) /\ Held(a)' <= Held(a) /\ VHeld(a)' <= VHeld(a)
<1>1. /\ row'[a].state = "settled" /\ row'[a].max = row[a].max /\ row'[a].vmax = row[a].vmax
      /\ row'[a].closing = row[a].closing
  BY DEF TypeOK, Row
<1>2. /\ bill'[a].micro <= row[a].max /\ bill'[a].vmicro <= row[a].vmax
      /\ observed'[a] <= row[a].max /\ ~row[a].closing /\ audit[a] = <<>>
  BY <1>1, Fields, HeldTypeNext DEF Surprised
<1>3. Held(a)' = bill'[a].micro /\ VHeld(a)' = bill'[a].vmicro
  BY <1>1 DEF Held, VHeld, Settled
<1>4. Held(a) >= row[a].max /\ VHeld(a) = row[a].vmax
  BY Fields, LargerFacts DEF Held, VHeld
<1>5. bill[a].micro = 0 /\ bill[a].vmicro = 0
  BY DEF Life
<1>6. Held(a) \in Nat /\ observed[a] \in Nat /\ observed'[a] \in Nat
  BY HeldType, Fields, HeldTypeNext
<1> QED
  BY <1>2, <1>3, <1>4, <1>5, <1>6, Fields, HeldTypeNext DEF Surprised

\* Short of an admission or an extension, an attempt that surprises nobody takes
\* no more than before, and surprised nobody before.
LEMMA HeldStep ==
  ASSUME TypeOK, TypeOK', NEW a \in Attempts, Life(a), Charge(a), Attempt(a), ~Surprised(a)'
  PROVE  /\ ~Surprised(a)
         /\ \/ Held(a)' <= Held(a) /\ VHeld(a)' <= VHeld(a)
            \/ \E q \in Quotes : Admit(a, q)
            \/ \E e \in Extensions : ExtendVoice(a, e)
<1> DEFINE Quiet == ~Surprised(a) /\ Held(a)' <= Held(a) /\ VHeld(a)' <= VHeld(a)
<1>0. ASSUME Record(a)' = Record(a) PROVE Quiet
  BY <1>0, HeldKept, HeldType
<1>1. ASSUME NEW q \in Quotes, Admit(a, q) PROVE ~Surprised(a)
  <2>1. observed[a] = 0 /\ audit[a] = <<>> /\ ~row[a].closing /\ bill[a].micro = 0 /\ bill[a].vmicro = 0
    BY <1>1, Fields DEF Admit, Life, Charge, Settled
  <2> QED
    BY <2>1, Fields DEF Surprised
<1>2. ASSUME Claim(a) PROVE Quiet
  BY <1>2, HeldMoved DEF Claim, TypeOK, Settled
<1>3. ASSUME Consume(a) PROVE Quiet
  <2>1. \/ row[a].state = "claimed" /\ row'[a] = [row[a] EXCEPT !.state = "dispatched"]
        \/ UNCHANGED row
    BY <1>3 DEF Consume, TypeOK
  <2>2. UNCHANGED <<bill, observed, cost, fix, audit>>
    BY <1>3 DEF Consume
  <2>3. CASE UNCHANGED row
    BY <2>2, <2>3, <1>0 DEF Record
  <2>4. CASE row[a].state = "claimed" /\ row'[a] = [row[a] EXCEPT !.state = "dispatched"]
    BY <2>2, <2>4, HeldMoved DEF Settled
  <2> QED
    BY <2>1, <2>3, <2>4
<1>4. ASSUME MarkCostDispatch(a) \/ CallProvider(a) PROVE Quiet
  BY <1>4, HeldType DEF MarkCostDispatch, CallProvider, Surprised, Held, VHeld, Settled
<1>5. ASSUME NEW o \in Reports, NEW c \in Reported, NEW e \in BOOLEAN, Settle(a, o, c, e)
      PROVE  Quiet
  <2>1. CASE Sealed(a)
    BY <1>5, <2>1, <1>0 DEF Settle, durable, Record
  <2>2. CASE ~Sealed(a)
    <3>1. /\ ~Settled(a) /\ row'[a] = [row[a] EXCEPT !.state = "settled"]
          /\ observed' = observed /\ audit' = audit
      BY <1>5, <2>2 DEF Settle, Claimed, Settled, TypeOK
    <3>2. observed'[a] >= observed[a]
      BY <3>1, Fields
    <3> QED
      BY <3>1, <3>2, HeldSettled
  <2> QED
    BY <2>1, <2>2
<1>6. ASSUME NEW o \in Reports, NEW c \in Reported, NEW v \in Charges, NEW e \in BOOLEAN,
             SettleVoice(a, o, c, v, e)
      PROVE  Quiet
  <2>1. CASE Sealed(a)
    BY <1>6, <2>1, <1>0 DEF SettleVoice, durable, Record
  <2>2. CASE ~Sealed(a)
    <3>1. /\ ~Settled(a) /\ row'[a] = [row[a] EXCEPT !.state = "settled"]
          /\ observed' = observed /\ audit' = audit
      BY <1>6, <2>2 DEF SettleVoice, Claimed, Settled, TypeOK
    <3>2. observed'[a] >= observed[a]
      BY <3>1, Fields
    <3> QED
      BY <3>1, <3>2, HeldSettled
  <2> QED
    BY <2>1, <2>2
<1>7. ASSUME NEW o \in Reports, NEW u \in Reported, NEW c \in Reported, SettleComponent(a, o, u, c)
      PROVE  Quiet
  <2>1. observed'[a] = Larger(observed[a], IF u = NoAmount THEN 0 ELSE u)
    BY <1>7 DEF SettleComponent, TypeOK
  <2>2. observed'[a] >= observed[a]
    BY <2>1, InputTypes, Fields, LargerFacts
  <2> QED
    BY <1>7, <2>2, HeldSettled DEF SettleComponent, Claimed, Settled, TypeOK
<1>8. ASSUME NEW c \in Charges, ObserveComponent(a, c)
      PROVE  Quiet
  <2>1. observed'[a] = Larger(observed[a], c) /\ row' = row /\ bill' = bill /\ audit' = audit
    BY <1>8 DEF ObserveComponent, TypeOK
  <2>2. observed'[a] >= observed[a] /\ observed'[a] \in Nat
    BY <2>1, InputTypes, Fields, LargerFacts
  <2>3. observed'[a] <= row[a].max
    BY <2>1, <2>2, Fields DEF Surprised
  <2>4. ~Settled(a) /\ ~Settled(a)'
    BY <1>8, <2>1 DEF ObserveComponent, Settled
  <2>5. Held(a)' = row[a].max /\ Held(a) = row[a].max /\ VHeld(a)' = VHeld(a)
    BY <2>1, <2>2, <2>3, <2>4, Fields DEF Held, VHeld, Larger
  <2> QED
    BY <2>1, <2>2, <2>3, <2>5, Fields, HeldType DEF Surprised
<1>9. ASSUME NEW g \in Generations \cup {NoGeneration}, NEW c \in Reported, ObserveCost(a, g, c)
      PROVE  Quiet
  <2>1. UNCHANGED <<row, observed>>
    BY <1>9 DEF ObserveCost, durable
  <2>2. \/ audit'[a] = Append(audit[a], Correction(a, c, bill[a].vmicro)) /\ c # NoAmount
        \/ UNCHANGED <<bill, audit>>
    BY <1>9 DEF ObserveCost, durable, PostCost, TypeOK
  <2>3. UNCHANGED <<bill, audit>>
    <3>1. c # NoAmount => c \in Nat
      BY InputTypes
    <3> QED
      BY <2>2, <3>1, Fields, PostedTrail
  <2> QED
    BY <2>1, <2>3, HeldType DEF Surprised, Held, VHeld, Settled
<1>10. ASSUME NEW k \in {"estimate", "receipt"}, NEW c \in Charges, ReconcileCost(a, k, c)
       PROVE  Quiet
  <2>1. CASE Sealed(a)
    BY <1>10, <2>1, <1>0 DEF ReconcileCost, durable, Record
  <2>2. CASE ~Sealed(a)
    <3>1. audit'[a] = Append(audit[a], Correction(a, c, bill[a].vmicro))
      BY <1>10, <2>2 DEF ReconcileCost, PostCost, TypeOK
    <3>2. c \in Nat /\ bill[a].vmicro \in Nat
      BY InputTypes, Fields
    <3> QED
      BY <3>1, <3>2, PostedTrail
  <2> QED
    BY <2>1, <2>2
<1>11. ASSUME NEW k \in {"estimate", "receipt"}, NEW c \in Charges, NEW v \in Charges,
              ReconcileVoice(a, k, c, v)
       PROVE  Quiet
  <2>1. CASE Sealed(a)
    BY <1>11, <2>1, <1>0 DEF ReconcileVoice, durable, Record
  <2>2. CASE ~Sealed(a)
    <3>1. audit'[a] = Append(audit[a], Correction(a, c, v))
      BY <1>11, <2>2 DEF ReconcileVoice, TypeOK
    <3>2. c \in Nat /\ v \in Nat
      BY InputTypes, Fields
    <3> QED
      BY <3>1, <3>2, PostedTrail
  <2> QED
    BY <2>1, <2>2
<1>12. ASSUME NEW e \in Extensions, ExtendVoice(a, e)
       PROVE  ~Surprised(a)
  <2>1. observed[a] = 0 /\ bill[a].micro = 0 /\ bill[a].vmicro = 0
    BY <1>12, Fields DEF ExtendVoice, Life, Charge, Settled, Voice, Component
  <2>2. row'[a].closing = row[a].closing /\ audit' = audit
    BY <1>12 DEF ExtendVoice, TypeOK, Row
  <2> QED
    BY <2>1, <2>2, Fields DEF Surprised
<1>13. ASSUME RetainVoiceExposure(a) PROVE Quiet
  BY <1>13 DEF RetainVoiceExposure, TypeOK, Row, Surprised
<1>14. ASSUME ReleaseCredits(a) PROVE Quiet
  BY <1>14, HeldType DEF ReleaseCredits, TypeOK, Bill, Surprised, Held, VHeld, Settled
<1> HIDE DEF Quiet
<1>15. \/ Quiet
       \/ \E q \in Quotes : Admit(a, q)
       \/ \E e \in Extensions : ExtendVoice(a, e)
  BY <1>2, <1>3, <1>4, <1>5, <1>6, <1>7, <1>8, <1>9, <1>10, <1>11, <1>13, <1>14 DEF Attempt
<1> QED
  BY <1>1, <1>12, <1>15 DEF Quiet

\* Recovery takes no more than the maxima did.
LEMMA HeldRecovered ==
  ASSUME TypeOK, TypeOK', NEW a \in Attempts, Life(a), Charge(a), Recover, ~Surprised(a)'
  PROVE  ~Surprised(a) /\ Held(a)' <= Held(a) /\ VHeld(a)' <= VHeld(a)
<1>1. CASE a \in Recoverable
  <2>1. row'[a] = [row[a] EXCEPT !.state = "settled"] /\ observed'[a] = observed[a] /\ audit'[a] = audit[a]
    BY <1>1 DEF Recover
  <2>2. ~Settled(a) /\ observed'[a] >= observed[a]
    BY <1>1, <2>1, Fields DEF Recoverable, Open, Settled
  <2> QED
    BY <2>1, <2>2, HeldSettled
<1>2. CASE a \notin Recoverable
  <2>1. Record(a)' = Record(a)
    BY <1>2 DEF Recover, Record
  <2> QED
    BY <2>1, HeldKept, HeldType
<1> QED
  BY <1>1, <1>2

\* What an admission adds fits under the caps of the conversation.
LEMMA AdmitWithinCaps ==
  ASSUME TypeOK, TypeOK', NEW a \in Attempts, NEW q \in Quotes, Admit(a, q), Charge(a),
         \A b \in Attempts : b # a => Held(b)' = Held(b) /\ VHeld(b)' = VHeld(b),
         VisitorUsed(SessionOf[a]) <= VisitorCap
  PROVE  Used(SessionOf[a])' <= SessionCap /\ VisitorUsed(SessionOf[a])' <= VisitorCap
<1> DEFINE s == SessionOf[a]
<1>1. /\ row[a].state = "none" /\ row[a].max = 0 /\ row[a].vmax = 0 /\ observed[a] = 0
      /\ observed'[a] = 0
  BY Fields DEF Admit, Charge
<1>2. row'[a].state = "admitted" /\ row'[a].max = q.max /\ row'[a].vmax = q.vmax
  BY DEF Admit, TypeOK
<1>3. Held(a) = 0 /\ VHeld(a) = 0
  BY <1>1 DEF Held, VHeld, Settled, Larger
<1>4. q.max \in Nat /\ q.vmax \in Nat
  BY InputTypes
<1>5. Held(a)' = q.max /\ VHeld(a)' = q.vmax
  BY <1>1, <1>2, <1>4 DEF Held, VHeld, Settled, Larger
<1>6. Used(s) + q.max <= SessionCap /\ VisitorUsed(s) + q.vmax <= VisitorCap
  BY DEF Admit, CanAdmit
<1>7. /\ Used(s)' + Held(a) = Used(s) + Held(a)'
      /\ a \in Voice => VisitorUsed(s)' + VHeld(a) = VisitorUsed(s) + VHeld(a)'
      /\ a \notin Voice => VisitorUsed(s)' = VisitorUsed(s)
  BY UsedRises
<1>8. Used(s) \in Nat /\ VisitorUsed(s) \in Nat
  BY UsedType
<1>9. Used(s)' \in Nat /\ VisitorUsed(s)' \in Nat
  BY UsedTypeNext
<1> HIDE DEF s
<1>10. Used(s)' = Used(s) + q.max
  BY <1>3, <1>4, <1>5, <1>7, <1>8, <1>9
<1>11. a \in Voice => VisitorUsed(s)' = VisitorUsed(s) + q.vmax
  BY <1>3, <1>4, <1>5, <1>7, <1>8, <1>9
<1> QED
  BY <1>6, <1>7, <1>10, <1>11 DEF s

\* So does what an extension adds.
LEMMA ExtendWithinCaps ==
  ASSUME TypeOK, TypeOK', NEW a \in Attempts, NEW e \in Extensions, ExtendVoice(a, e), Charge(a),
         \A b \in Attempts : b # a => Held(b)' = Held(b) /\ VHeld(b)' = VHeld(b)
  PROVE  Used(SessionOf[a])' <= SessionCap /\ VisitorUsed(SessionOf[a])' <= VisitorCap
<1> DEFINE s == SessionOf[a]
           max == Larger(e.max, row[a].max)
           vmax == Larger(e.vmax, row[a].vmax)
<1>1. a \in Voice /\ row[a].state = "dispatched" /\ observed[a] = 0 /\ observed'[a] = 0
  BY Fields DEF ExtendVoice, Charge, Voice, Component
<1>2. row'[a].state = "dispatched" /\ row'[a].max = max /\ row'[a].vmax = vmax
  BY <1>1 DEF ExtendVoice, TypeOK, Row
<1>3. row[a].max \in Nat /\ row[a].vmax \in Nat /\ max \in Nat /\ vmax \in Nat
      /\ max >= row[a].max /\ vmax >= row[a].vmax
  BY Fields, InputTypes, LargerFacts
<1>4. CanAdmit(s, max - row[a].max, vmax - row[a].vmax)
  BY DEF ExtendVoice
<1> HIDE DEF max, vmax
<1>5. Held(a) = row[a].max /\ VHeld(a) = row[a].vmax
  BY <1>1, <1>3 DEF Held, VHeld, Settled, Larger
<1>6. Held(a)' = max /\ VHeld(a)' = vmax
  BY <1>1, <1>2, <1>3 DEF Held, VHeld, Settled, Larger
<1>7. Used(s)' + Held(a) = Used(s) + Held(a)' /\ VisitorUsed(s)' + VHeld(a) = VisitorUsed(s) + VHeld(a)'
  BY <1>1, UsedRises
<1>8. Used(s) \in Nat /\ VisitorUsed(s) \in Nat
  BY UsedType
<1>9. Used(s)' \in Nat /\ VisitorUsed(s)' \in Nat
  BY UsedTypeNext
<1>10. Used(s) + (max - row[a].max) <= SessionCap /\ VisitorUsed(s) + (vmax - row[a].vmax) <= VisitorCap
  BY <1>4 DEF CanAdmit
<1>11. SessionCap \in Nat /\ VisitorCap \in Nat
  BY LedgerAssumption
<1> HIDE DEF s
<1> QED
  BY <1>3, <1>5, <1>6, <1>7, <1>8, <1>9, <1>10, <1>11 DEF s

\* When nothing surprised a conversation and nothing more is used, the caps hold
\* if they held.
LEMMA CapsKept ==
  ASSUME TypeOK, TypeOK', NEW s \in Sessions, CapHolds,
         \A b \in Attempts : SessionOf[b] = s =>
            ~Surprised(b) /\ Held(b)' <= Held(b) /\ VHeld(b)' <= VHeld(b)
  PROVE  Used(s)' <= SessionCap /\ VisitorUsed(s)' <= VisitorCap
<1>1. Used(s) <= SessionCap /\ VisitorUsed(s) <= VisitorCap
  BY DEF CapHolds
<1>2. Used(s)' <= Used(s) /\ VisitorUsed(s)' <= VisitorUsed(s)
  BY UsedNoMore
<1>3. Used(s) \in Nat /\ VisitorUsed(s) \in Nat
  BY UsedType
<1>4. Used(s)' \in Nat /\ VisitorUsed(s)' \in Nat
  BY UsedTypeNext
<1> QED
  BY <1>1, <1>2, <1>3, <1>4, LedgerAssumption

\* A step of one attempt keeps the caps of every conversation.
LEMMA CapsStep ==
  ASSUME TypeOK, TypeOK', \A b \in Attempts : Life(b) /\ Charge(b), CapHolds,
         NEW a \in Attempts, Attempt(a),
         NEW s \in Sessions, \A b \in Attempts : SessionOf[b] = s => ~Surprised(b)'
  PROVE  Used(s)' <= SessionCap /\ VisitorUsed(s)' <= VisitorCap
<1>1. \A b \in Attempts : b # a =>
         Held(b)' = Held(b) /\ VHeld(b)' = VHeld(b) /\ (Surprised(b)' <=> Surprised(b))
  BY OneRowMoves, HeldKept
<1>2. \A b \in Attempts : Held(b) <= Held(b) /\ VHeld(b) <= VHeld(b)
  BY HeldType
<1>3. CASE SessionOf[a] # s
  <2>1. \A b \in Attempts : SessionOf[b] = s =>
           ~Surprised(b) /\ Held(b)' <= Held(b) /\ VHeld(b)' <= VHeld(b)
    BY <1>1, <1>2, <1>3
  <2> QED
    BY <2>1, CapsKept
<1>4. CASE SessionOf[a] = s
  <2>1. /\ ~Surprised(a)
        /\ \/ Held(a)' <= Held(a) /\ VHeld(a)' <= VHeld(a)
           \/ \E q \in Quotes : Admit(a, q)
           \/ \E e \in Extensions : ExtendVoice(a, e)
    BY <1>4, HeldStep
  <2>2. CASE Held(a)' <= Held(a) /\ VHeld(a)' <= VHeld(a)
    <3>1. \A b \in Attempts : SessionOf[b] = s =>
             ~Surprised(b) /\ Held(b)' <= Held(b) /\ VHeld(b)' <= VHeld(b)
      BY <1>1, <1>2, <2>1, <2>2
    <3> QED
      BY <3>1, CapsKept
  <2>3. CASE \E q \in Quotes : Admit(a, q)
    <3>1. \A b \in Attempts : SessionOf[b] = s => ~Surprised(b)
      BY <1>1, <2>1
    <3>2. VisitorUsed(s) <= VisitorCap
      BY <3>1 DEF CapHolds
    <3> QED
      BY <1>1, <1>4, <2>3, <3>2, AdmitWithinCaps
  <2>4. CASE \E e \in Extensions : ExtendVoice(a, e)
    BY <1>1, <1>4, <2>4, ExtendWithinCaps
  <2> QED
    BY <2>1, <2>2, <2>3, <2>4
<1> QED
  BY <1>3, <1>4

\* However admissions, extensions, settlements, crashes and recoveries of any
\* number of attempts interleave, no conversation is committed beyond its caps
\* unless a provider or a closing call surprised it (canAdmit, admit, extendVoice).
THEOREM CapsHold == Spec => []CapHolds
<1> DEFINE Lives == \A a \in Attempts : Life(a)
           Charged == \A a \in Attempts : Charge(a)
<1>1. Init => CapHolds
  <2> SUFFICES ASSUME Init, NEW s \in Sessions
               PROVE  Used(s) <= SessionCap /\ VisitorUsed(s) <= VisitorCap
    BY DEF CapHolds
  <2>1. \A a \in Attempts : Held(a) = 0 /\ VHeld(a) = 0
    BY DEF Init, NoRow, Held, VHeld, Settled, Larger
  <2>2. Used(s) = 0
    BY <2>1, SessionFinite, SumZero DEF Used
  <2>3. VisitorUsed(s) = 0
    BY <2>1, SessionFinite, SumZero DEF VisitorUsed, Voice
  <2> QED
    BY <2>2, <2>3, LedgerAssumption
<1>2. TypeOK /\ TypeOK' /\ Lives /\ Charged /\ CapHolds /\ [Next]_vars => CapHolds'
  <2> SUFFICES ASSUME TypeOK, TypeOK', Lives, Charged, CapHolds, [Next]_vars,
                      NEW s \in Sessions, \A b \in Attempts : SessionOf[b] = s => ~Surprised(b)'
               PROVE  Used(s)' <= SessionCap /\ VisitorUsed(s)' <= VisitorCap
    BY DEF CapHolds
  <2>0. ASSUME \A b \in Attempts : Record(b)' = Record(b)
        PROVE  Used(s)' <= SessionCap /\ VisitorUsed(s)' <= VisitorCap
    <3>1. \A b \in Attempts : SessionOf[b] = s =>
             ~Surprised(b) /\ Held(b)' <= Held(b) /\ VHeld(b)' <= VHeld(b)
      BY <2>0, HeldKept, HeldType
    <3> QED
      BY <3>1, CapsKept
  <2>1. ASSUME NEW a \in Attempts, Attempt(a)
        PROVE  Used(s)' <= SessionCap /\ VisitorUsed(s)' <= VisitorCap
    BY <2>1, CapsStep
  <2>2. ASSUME NEW r \in Sessions, Seal(r)
        PROVE  Used(s)' <= SessionCap /\ VisitorUsed(s)' <= VisitorCap
    BY <2>2, <2>0 DEF Seal, Record, durable
  <2>3. CASE Crash
    BY <2>3, <2>0 DEF Crash, Record, durable
  <2>4. CASE Recover
    <3>1. \A b \in Attempts : SessionOf[b] = s =>
             ~Surprised(b) /\ Held(b)' <= Held(b) /\ VHeld(b)' <= VHeld(b)
      BY <2>4, HeldRecovered
    <3> QED
      BY <3>1, CapsKept
  <2>5. CASE UNCHANGED vars
    BY <2>5, <2>0 DEF vars, Record
  <2> QED
    BY <2>1, <2>2, <2>3, <2>4, <2>5 DEF Next
<1> QED
  BY <1>1, <1>2, TypeCorrect, LifeAlways, ChargeAlways, PTL DEF Spec

-----------------------------------------------------------------------------
(* The account of the paid requests *)

\* The account, for whatever is charged to it.
Cap == INSTANCE SpendCapProofs WITH
  Ceilings <- {Ceiling}, Amounts <- Nat, ConfiguredCap <- AccountCap, Caps <- {}

\* The account meets the assumptions of SpendCap.
LEMMA AccountConstants == Cap!CapAssumption
BY LedgerAssumption, CallAssumption DEF Cap!CapAssumption, Cap!IsFiniteSet, IsFiniteSet

\* The sums of the account are those of SumFacts.
LEMMA AccountSums ==
  ASSUME NEW f, NEW S
  PROVE  /\ Account!SumFunctionOnSet(f, S) = SumFunctionOnSet(f, S)
         /\ Cap!SumFunctionOnSet(f, S) = SumFunctionOnSet(f, S)
         /\ Promise!SumFunctionOnSet(f, S) = SumFunctionOnSet(f, S)
<1>1. Account!SumFunctionOnSet(f, S) = (CHOOSE s : s = Round(f, s, S))[S]
  BY Zenon DEF Account!SumFunctionOnSet, Account!FoldFunctionOnSet, Account!MapThenFoldSet, Round, First
<1>2. Cap!SumFunctionOnSet(f, S) = (CHOOSE s : s = Round(f, s, S))[S]
  BY Zenon DEF Cap!SumFunctionOnSet, Cap!FoldFunctionOnSet, Cap!MapThenFoldSet, Round, First
<1>3. Promise!SumFunctionOnSet(f, S) = (CHOOSE s : s = Round(f, s, S))[S]
  BY Zenon DEF Promise!SumFunctionOnSet, Promise!FoldFunctionOnSet, Promise!MapThenFoldSet, Round, First
<1> QED
  BY <1>1, <1>2, <1>3, SumFold

\* What is read of the account.
LEMMA AccountReads ==
  /\ Account!Committed = Cap!Committed
  /\ Account!Breached <=> Cap!Breached
  /\ \A x : (Account!Exists(x) <=> Cap!Exists(x)) /\ (Account!Settled(x) <=> Cap!Settled(x))
            /\ (Account!Unsettled(x) <=> Cap!Unsettled(x))
  /\ \A c : Account!AmountHeld(c) = Cap!AmountHeld(c)
BY AccountSums DEF Account!Committed, Account!Spent, Account!SpentIn, Account!ReservedIn, Account!UncertainIn,
     Account!ActualOf, Account!ReservedOf, Account!Settled, Account!Held, Account!Uncertain, Account!Unsettled,
     Account!Exists, Account!Breached, Account!Overrun, Account!OverrunIn, Account!CapMicro, Account!AmountHeld,
     Cap!Committed, Cap!Spent, Cap!SpentIn, Cap!ReservedIn, Cap!UncertainIn,
     Cap!ActualOf, Cap!ReservedOf, Cap!Settled, Cap!Held, Cap!Uncertain, Cap!Unsettled,
     Cap!Exists, Cap!Breached, Cap!Overrun, Cap!OverrunIn, Cap!CapMicro, Cap!AmountHeld

\* What is done to the account.
LEMMA AccountSteps ==
  ASSUME NEW a
  PROVE  /\ Account!Reserve(a, Ceiling) <=> Cap!Reserve(a, Ceiling)
         /\ Account!Dispatch(a) <=> Cap!Dispatch(a)
         /\ \A c : (Account!Record(a, c) <=> Cap!Record(a, c)) /\ (Account!Settle(a, c) <=> Cap!Settle(a, c))
                   /\ (Account!Retain(a, c) <=> Cap!Retain(a, c))
         /\ Account!MarkUncertain(a) <=> Cap!MarkUncertain(a)
         /\ Account!RecoverHold(a) <=> Cap!RecoverHold(a)
<1>1. Account!Reserve(a, Ceiling) <=> Cap!Reserve(a, Ceiling)
  BY AccountReads DEF Account!Reserve, Cap!Reserve, Account!Fits, Cap!Fits, Account!CapMicro, Cap!CapMicro,
     Account!NoHold, Cap!NoHold
<1>2. Account!Dispatch(a) <=> Cap!Dispatch(a)
  BY AccountReads DEF Account!Dispatch, Cap!Dispatch
<1>3. ASSUME NEW c
      PROVE  /\ Account!Confirmed(a, c) = Cap!Confirmed(a, c)
             /\ Account!Record(a, c) <=> Cap!Record(a, c)
             /\ Account!Settle(a, c) <=> Cap!Settle(a, c)
             /\ Account!Retain(a, c) <=> Cap!Retain(a, c)
  BY AccountReads DEF Account!Record, Cap!Record, Account!Settle, Cap!Settle, Account!Retain, Cap!Retain,
     Account!Confirmed, Cap!Confirmed
<1>4. Account!MarkUncertain(a) <=> Cap!MarkUncertain(a)
  BY AccountReads DEF Account!MarkUncertain, Cap!MarkUncertain
<1>5. Account!RecoverHold(a) <=> Cap!RecoverHold(a)
  BY AccountReads, <1>3 DEF Account!RecoverHold, Cap!RecoverHold, Account!Recovered, Cap!Recovered
<1> QED
  BY <1>1, <1>2, <1>3, <1>4, <1>5

-----------------------------------------------------------------------------
(* The books of a paid request, whichever way they are written *)

\* What an amount on record of an attempt may be: absent or true.
MaybeTrue(x) == {NoAmount, TrueCharge(x)}

\* Every amount on record is what the provider really charged.
TrueRow(x) ==
  /\ hold[x].actual \in MaybeTrue(x) /\ hold[x].seen \in MaybeTrue(x)
  /\ retained[x] \in MaybeTrue(x) /\ cost[x].charged \in MaybeTrue(x)
  /\ Known(x) => bill[x].micro = TrueCharge(x)
  /\ fix[x].kind = "receipt" => fix[x].micro = TrueCharge(x)
  /\ fix[x].kind # "none" => Settled(x)

\* A request that was sent was claimed, is on record as started and has a hold.
SentRow(x) ==
  /\ Called(x) => /\ row[x].state \in {"dispatched", "settled"} /\ cost[x].started
                  /\ hold[x].state \notin {"none", "reserved"}
  /\ hold[x].actual # NoAmount => Account!Exists(x)
  /\ hold[x].state # "purged" /\ (Account!Exists(x) => hold[x].ceiling = Ceiling)

BookRows == \A x \in Attempts : TrueRow(x) /\ SentRow(x)
Books == TypeOK /\ Cap!CapTypeOK /\ BookRows

\* A step that teaches one of the two books.
Teaches ==
  /\ \A x \in Attempts : /\ Called(x)' <=> Called(x)
                         /\ Account!Exists(x)' <=> Account!Exists(x)
                         /\ Known(x) => Known(x)'
                         /\ Settled(x) => Settled(x)'
                         /\ hold[x].actual # NoAmount => hold'[x].actual # NoAmount
  /\ \/ \A x \in Attempts : hold'[x].actual = hold[x].actual
     \/ \A x \in Attempts : Known(x)' <=> Known(x)

\* What the session's book says of an attempt, and what the account's book says.
SameSession(x) ==
  /\ row'[x] = row[x] /\ bill'[x] = bill[x] /\ retained'[x] = retained[x]
  /\ cost'[x] = cost[x] /\ fix'[x] = fix[x] /\ reach'[x] = reach[x]
SameHold(x) == hold'[x] = hold[x]

\* Attempts none of whose books changed.
LEMMA BooksKept ==
  ASSUME NEW x \in Attempts, TrueRow(x), SentRow(x), SameSession(x), SameHold(x)
  PROVE  /\ TrueRow(x)' /\ SentRow(x)'
         /\ Called(x)' <=> Called(x)
         /\ Account!Exists(x)' <=> Account!Exists(x)
         /\ Known(x)' <=> Known(x)
         /\ Settled(x)' <=> Settled(x)
BY DEF SameSession, SameHold, TrueRow, SentRow, MaybeTrue, TrueCharge, Called, Known, Settled, Account!Exists

\* A settlement by the invocation.
LEMMA SettleDoes ==
  ASSUME TypeOK, NEW a \in Attempts, NEW o \in Outcomes, NEW c \in MaybeAmount, Settle(a, o, c, FALSE)
  PROVE  /\ \A x \in Attempts : x # a => SameSession(x)
         /\ up /\ Claimed(a)
         /\ UNCHANGED <<cost, fix, reach, token, sealed, up>>
         /\ \/ /\ Sealed(a) /\ row' = row /\ bill' = bill
               /\ \/ retained' = retained
                  \/ /\ row[a].state = "dispatched" /\ c # NoAmount
                     /\ retained' = [retained EXCEPT ![a] = c]
            \/ /\ ~Sealed(a) /\ retained' = retained
               /\ row' = [row EXCEPT ![a].state = "settled"]
               /\ row[a].state # "dispatched" => bill'[a].outcome = "cancelled" /\ bill'[a].micro = 0
               /\ row[a].state = "dispatched" /\ c # NoAmount => bill'[a].outcome = o /\ bill'[a].micro = c
               /\ row[a].state = "dispatched" /\ c = NoAmount => bill'[a].outcome = "uncertain"
<1>1. row \in [Attempts -> Row] /\ bill \in [Attempts -> Bill] /\ retained \in [Attempts -> MaybeAmount]
  BY DEF TypeOK
<1>2. CASE Sealed(a)
  BY <1>1, <1>2 DEF Settle, Retain, SameSession, durable
<1>3. CASE ~Sealed(a)
  <2> DEFINE charge == IF row[a].state # "dispatched" THEN 0 ELSE IF c = NoAmount THEN row[a].max ELSE c
             outcome == IF row[a].state # "dispatched" THEN "cancelled"
                        ELSE IF c = NoAmount THEN "uncertain" ELSE o
  <2>1. PICK f \in BOOLEAN : bill' = [bill EXCEPT ![a] = [Terminal(a, outcome, charge, 0) EXCEPT !.overrun = f]]
    BY <1>3 DEF Settle
  <2> HIDE DEF charge, outcome
  <2>2. bill'[a].outcome = outcome /\ bill'[a].micro = charge /\ \A x \in Attempts : x # a => bill'[x] = bill[x]
    BY <1>1, <2>1 DEF Terminal
  <2> USE DEF charge, outcome
  <2>3. row' = [row EXCEPT ![a].state = "settled"] /\ UNCHANGED <<observed, cost, fix, audit, retained>>
    BY <1>3 DEF Settle
  <2>4. up /\ Claimed(a) /\ UNCHANGED <<token, reach, sealed, up>>
    BY DEF Settle
  <2>5. \A x \in Attempts : x # a => row'[x] = row[x]
    BY <1>1, <2>3
  <2> QED
    BY <1>3, <2>2, <2>3, <2>4, <2>5 DEF SameSession
<1> QED
  BY <1>2, <1>3

\* The amounts of the model.
LEMMA ChargeFacts ==
  /\ NoAmount \notin Nat
  /\ \A x \in Attempts : ChargeOf[x] \in Nat /\ TrueCharge(x) \in Nat /\ x \in CostBacked
  /\ \A x \in Attempts : LaneOf[x] \notin {"voice", "stt", "tts"}
<1>1. NoAmount \notin Nat /\ Charges \subseteq Nat /\ CostBacked \subseteq Attempts \ (Voice \cup Component)
  BY LedgerAssumption
<1>2. CostBacked = Attempts /\ ChargeOf \in [Attempts -> Charges]
  BY CallAssumption
<1> QED
  BY <1>1, <1>2 DEF TrueCharge, Voice, Component

\* Evidence posted to a settled row.
LEMMA PostDoes ==
  ASSUME TypeOK, NEW a \in Attempts, NEW k \in {"estimate", "receipt"}, NEW c \in Nat, PostCost(a, k, c)
  PROVE  /\ bill'[a].micro = c /\ bill'[a].outcome = bill[a].outcome
         /\ fix'[a].kind = k /\ fix'[a].micro = c
         /\ \A x \in Attempts : x # a => bill'[x] = bill[x] /\ fix'[x] = fix[x]
<1>1. bill \in [Attempts -> Bill] /\ fix \in [Attempts -> Fix]
  BY DEF TypeOK
<1>2. bill'[a] = [bill[a] EXCEPT !.micro = c, !.vmicro = bill[a].vmicro, !.overrun = Overran(a, c)]
      /\ \A x \in Attempts : x # a => bill'[x] = bill[x]
  BY <1>1 DEF PostCost, Posted
<1>3. bill[a] \in [outcome : Outcomes \cup {"none"}, micro : Nat, vmicro : Nat, overrun : BOOLEAN, released : BOOLEAN]
  BY <1>1 DEF Bill
<1>4. bill'[a].micro = c /\ bill'[a].outcome = bill[a].outcome
  BY <1>2, <1>3
<1>5. fix' = [fix EXCEPT ![a] = [kind |-> k, micro |-> c, vmicro |-> 0]]
  BY DEF PostCost
<1>6. fix'[a] = [kind |-> k, micro |-> c, vmicro |-> 0] /\ \A x \in Attempts : x # a => fix'[x] = fix[x]
  BY <1>1, <1>5
<1> QED
  BY <1>2, <1>4, <1>6

\* A charge, or a name, that is observed.
LEMMA ObserveDoes ==
  ASSUME TypeOK, NEW a \in Attempts, NEW g \in Generations \cup {NoGeneration}, NEW c \in MaybeAmount,
         ObserveCost(a, g, c)
  PROVE  /\ \A x \in Attempts : x # a => SameSession(x)
         /\ up /\ UNCHANGED <<row, reach, sealed>>
         /\ row[a].state \in {"dispatched", "settled"}
         /\ cost'[a].started = cost[a].started
         /\ up' => UNCHANGED <<token, up>>
         /\ \A x \in Attempts : token'[x] \in {token[x], "none"}
         /\ Sealed(a) => /\ up' /\ UNCHANGED <<bill, cost, fix>>
                         /\ retained' = retained \/ (c # NoAmount /\ retained' = [retained EXCEPT ![a] = c])
         /\ ~Sealed(a) => /\ retained' = retained
                          /\ cost'[a].charged = IF c = NoAmount THEN cost[a].charged ELSE c
                          /\ c = NoAmount => up'
                          /\ \/ bill'[a] = bill[a] /\ fix'[a] = fix[a]
                             \/ /\ c # NoAmount /\ Settled(a) /\ CostAccepted(a, "receipt", c)
                                /\ bill'[a].outcome = bill[a].outcome /\ bill'[a].micro = c
                                /\ fix'[a].kind = "receipt" /\ fix'[a].micro = c
<1>1. /\ retained \in [Attempts -> MaybeAmount] /\ cost \in [Attempts -> Cost]
      /\ token \in [Attempts -> {"none", "held", "spent"}]
  BY DEF TypeOK
<1>2. CASE Sealed(a)
  BY <1>1, <1>2 DEF ObserveCost, Retain, SameSession, durable
<1>3. CASE ~Sealed(a)
  <2>1. cost' = [cost EXCEPT ![a].gen = IF g = NoGeneration THEN @ ELSE g,
                             ![a].charged = IF c = NoAmount THEN @ ELSE c]
    BY <1>3 DEF ObserveCost
  <2> DEFINE gen == IF g = NoGeneration THEN cost[a].gen ELSE g
             charged == IF c = NoAmount THEN cost[a].charged ELSE c
  <2>2. cost' = [cost EXCEPT ![a] = [cost[a] EXCEPT !.gen = gen, !.charged = charged]]
    BY <1>1, <2>1
  <2> HIDE DEF gen, charged
  <2>3. cost[a] \in [gen : Generations \cup {NoGeneration}, charged : MaybeAmount, started : BOOLEAN]
    BY <1>1 DEF Cost
  <2>4. cost'[a].charged = charged /\ cost'[a].started = cost[a].started
        /\ \A x \in Attempts : x # a => cost'[x] = cost[x]
    BY <1>1, <2>2, <2>3
  <2>5. /\ up /\ UNCHANGED <<row, reach, sealed, retained>> /\ row[a].state \in {"dispatched", "settled"}
        /\ up' => UNCHANGED <<token, up>>
        /\ \A x \in Attempts : token'[x] \in {token[x], "none"}
        /\ c = NoAmount => up'
        /\ \/ UNCHANGED <<bill, fix>>
           \/ c # NoAmount /\ Settled(a) /\ CostAccepted(a, "receipt", c) /\ PostCost(a, "receipt", c)
    BY <1>1, <1>3 DEF ObserveCost
  <2>6. CASE UNCHANGED <<bill, fix>>
    BY <1>3, <2>4, <2>5, <2>6 DEF SameSession, charged
  <2>7. CASE c # NoAmount /\ Settled(a) /\ CostAccepted(a, "receipt", c) /\ PostCost(a, "receipt", c)
    <3>1. c \in Nat
      BY <2>7 DEF MaybeAmount
    <3>2. /\ bill'[a].micro = c /\ bill'[a].outcome = bill[a].outcome
          /\ fix'[a].kind = "receipt" /\ fix'[a].micro = c
          /\ \A x \in Attempts : x # a => bill'[x] = bill[x] /\ fix'[x] = fix[x]
      BY <2>7, <3>1, PostDoes
    <3> QED
      BY <1>3, <2>4, <2>5, <2>7, <3>2 DEF SameSession, charged
  <2> QED
    BY <2>5, <2>6, <2>7
<1> QED
  BY <1>2, <1>3

\* Evidence the receipt job posts.
LEMMA ReconcileDoes ==
  ASSUME TypeOK, NEW a \in Attempts, NEW k \in {"estimate", "receipt"}, NEW c \in Nat, ReconcileCost(a, k, c)
  PROVE  /\ \A x \in Attempts : x # a => SameSession(x)
         /\ up /\ Settled(a) /\ CostAccepted(a, k, c)
         /\ UNCHANGED <<row, cost, token, reach, sealed, up>>
         /\ Sealed(a) => /\ bill' = bill /\ fix' = fix
                         /\ retained' = retained \/ (k = "receipt" /\ retained' = [retained EXCEPT ![a] = c])
         /\ ~Sealed(a) => /\ retained' = retained
                          /\ bill'[a].outcome = bill[a].outcome /\ bill'[a].micro = c
                          /\ fix'[a].kind = k /\ fix'[a].micro = c
<1>1. retained \in [Attempts -> MaybeAmount]
  BY DEF TypeOK
<1>2. CASE Sealed(a)
  BY <1>1, <1>2 DEF ReconcileCost, Retain, SameSession, durable
<1>3. CASE ~Sealed(a)
  <2>1. PostCost(a, k, c) /\ UNCHANGED <<row, observed, cost, retained, token, reach, sealed, up>>
        /\ up /\ Settled(a) /\ CostAccepted(a, k, c)
    BY <1>3 DEF ReconcileCost
  <2> QED
    BY <1>3, <2>1, PostDoes DEF SameSession
<1> QED
  BY <1>2, <1>3

\* A hold that takes a charge, if it has none.
LEMMA ConfirmDoes ==
  ASSUME Cap!CapTypeOK, NEW a \in Attempts, NEW c \in Nat, hold' = Cap!Confirmed(a, c)
  PROVE  /\ \A x \in Attempts : x # a => SameHold(x)
         /\ \/ hold[a].actual # NoAmount /\ SameHold(a)
            \/ /\ hold[a].actual = NoAmount /\ hold'[a].actual = c /\ hold'[a].state = "confirmed"
               /\ hold'[a].seen = hold[a].seen /\ hold'[a].ceiling = hold[a].ceiling
<1>1. hold \in [Attempts -> Cap!Hold]
  BY DEF Cap!CapTypeOK
<1> QED
  BY <1>1 DEF Cap!Confirmed, Cap!Hold, SameHold

\* What the fence hands to a hold.
LEMMA HandOverDoes ==
  ASSUME Cap!CapTypeOK, NEW a \in Attempts, retained'[a] = retained[a] \/ retained'[a] \in Nat, HandOver(a)
  PROVE  /\ \A x \in Attempts : x # a => SameHold(x)
         /\ UNCHANGED <<gone, stored, live>>
         /\ \/ SameHold(a)
            \/ /\ Account!Exists(a) /\ retained'[a] # retained[a]
               /\ hold[a].actual = NoAmount /\ hold'[a].actual = retained'[a] /\ hold'[a].state = "confirmed"
               /\ hold'[a].seen = hold[a].seen /\ hold'[a].ceiling = hold[a].ceiling
<1>1. CASE retained'[a] = retained[a]
  BY <1>1 DEF HandOver, account, SameHold
<1>2. CASE retained'[a] # retained[a]
  <2>1. Cap!Retain(a, retained'[a])
    BY <1>2, AccountSteps DEF HandOver
  <2>2. UNCHANGED <<gone, stored, live>>
        /\ (hold' = hold \/ (Account!Exists(a) /\ hold' = Cap!Confirmed(a, retained'[a])))
    BY <2>1, AccountReads DEF Cap!Retain
  <2>3. CASE hold' = hold
    BY <2>2, <2>3 DEF SameHold
  <2>4. CASE Account!Exists(a) /\ hold' = Cap!Confirmed(a, retained'[a])
    BY <1>2, <2>2, <2>4, ConfirmDoes
  <2> QED
    BY <2>2, <2>3, <2>4
<1> QED
  BY <1>1, <1>2

\* A step of the account keeps it typed.
LEMMA AccountStep ==
  ASSUME Cap!CapTypeOK, [Cap!CapNext]_<<hold, gone, stored, live>>
  PROVE  Cap!CapTypeOK'
<1>1. [Cap!CapNext]_(Cap!capVars)
  BY DEF Cap!capVars
<1> QED
  BY <1>1, AccountConstants, Cap!StepType

\* So does a charge the fence hands over.
LEMMA HandOverType ==
  ASSUME Cap!CapTypeOK, live, NEW a \in Attempts, retained'[a] = retained[a] \/ retained'[a] \in Nat, HandOver(a)
  PROVE  Cap!CapTypeOK'
<1>1. UNCHANGED account \/ (retained'[a] \in Nat /\ Cap!Retain(a, retained'[a]))
  BY AccountSteps DEF HandOver
<1>2. [Cap!CapNext]_<<hold, gone, stored, live>>
  BY <1>1 DEF Cap!CapNext, account
<1> QED
  BY <1>2, AccountStep

-----------------------------------------------------------------------------
(* The books stay true *)

\* A step that writes the books of one attempt, truly.
OthersKept(a) == \A x \in Attempts : x # a => SameSession(x) /\ SameHold(x)

\* A step of one attempt that keeps its row true keeps the books, and each book learns at most
\* what the provider charged.
LEMMA OneTaught ==
  ASSUME Books, NEW a \in Attempts, OthersKept(a), TrueRow(a)', SentRow(a)',
         Called(a)' <=> Called(a), Account!Exists(a)' <=> Account!Exists(a),
         Known(a) => Known(a)', Settled(a) => Settled(a)', hold[a].actual # NoAmount => hold'[a].actual # NoAmount,
         hold'[a].actual = hold[a].actual \/ (Known(a)' <=> Known(a))
  PROVE  BookRows' /\ Teaches
<1>1. ASSUME NEW x \in Attempts, x # a
      PROVE  /\ TrueRow(x)' /\ SentRow(x)' /\ (Called(x)' <=> Called(x))
             /\ (Account!Exists(x)' <=> Account!Exists(x)) /\ (Known(x)' <=> Known(x))
             /\ (Settled(x)' <=> Settled(x)) /\ hold'[x] = hold[x]
  BY <1>1, BooksKept DEF OthersKept, Books, BookRows, SameHold
<1>2. BookRows'
  BY <1>1 DEF BookRows
<1>3. Teaches
  BY <1>1 DEF Teaches
<1> QED
  BY <1>2, <1>3

\* A step that writes neither book.
LEMMA Untouched ==
  ASSUME Books, TypeOK', UNCHANGED <<row, bill, cost, fix, reach, retained, hold, gone, stored>>, live' \in BOOLEAN
  PROVE  Books' /\ Teaches /\ \A x \in Attempts : SameSession(x) /\ SameHold(x)
<1>1. \A x \in Attempts : SameSession(x) /\ SameHold(x)
  BY DEF SameSession, SameHold
<1>2. ASSUME NEW x \in Attempts
      PROVE  /\ TrueRow(x)' /\ SentRow(x)' /\ (Called(x)' <=> Called(x))
             /\ (Account!Exists(x)' <=> Account!Exists(x)) /\ (Known(x)' <=> Known(x))
             /\ (Settled(x)' <=> Settled(x)) /\ hold'[x] = hold[x]
  BY <1>1, BooksKept DEF Books, BookRows, SameHold
<1>3. Cap!CapTypeOK'
  BY DEF Books, Cap!CapTypeOK, Cap!Settled, Cap!Exists
<1>4. BookRows'
  BY <1>2 DEF BookRows
<1>5. Teaches
  BY <1>2 DEF Teaches
<1> QED
  BY <1>1, <1>3, <1>4, <1>5 DEF Books

\* The report of an invocation tells the truth: to the row, or to the hold behind
\* the fence.
LEMMA ReportKeeps ==
  ASSUME Books, live, NEW a \in Attempts, NEW o \in Outcomes, NEW c \in MaybeTrue(a), Report(a, o, c)
  PROVE  /\ Books' /\ Teaches /\ OthersKept(a)
         /\ UNCHANGED <<cost, reach, token, sealed, up, gone, stored, live>>
         /\ row'[a].state \in {row[a].state, "settled"}
         /\ ~call[a].ended /\ ~Sealed(a) => row'[a].state = "settled"
         /\ ~Account!Exists(a) => SameHold(a)
         /\ hold'[a].state = hold[a].state \/ Account!Exists(a)'
<1>0. /\ TypeOK /\ Cap!CapTypeOK /\ TrueRow(a) /\ SentRow(a)
      /\ c \in MaybeAmount /\ (c # NoAmount => c \in Nat /\ c = TrueCharge(a))
      /\ row \in [Attempts -> Row] /\ retained \in [Attempts -> MaybeAmount]
  BY ChargeFacts DEF Books, BookRows, TypeOK, MaybeTrue, MaybeAmount
<1>1. CASE call[a].ended
  <2>1. UNCHANGED <<row, bill, observed, cost, fix, audit, token, reach, sealed, retained, up>>
        /\ UNCHANGED <<hold, gone, stored, live>>
    BY <1>1 DEF Report, ledger, vars, account
  <2>2. TypeOK' /\ live' \in BOOLEAN
    BY <1>0, <2>1 DEF TypeOK
  <2> QED
    BY <1>1, <2>1, <2>2, Untouched DEF OthersKept
<1>2. CASE ~call[a].ended
  <2>1. Settle(a, o, c, FALSE) /\ HandOver(a)
    BY <1>2 DEF Report
  <2>2. /\ \A x \in Attempts : x # a => SameSession(x)
        /\ up /\ Claimed(a)
        /\ UNCHANGED <<cost, fix, reach, token, sealed, up>>
    BY <1>0, <2>1, SettleDoes
  <2>3. \/ /\ Sealed(a) /\ row' = row /\ bill' = bill
           /\ \/ retained' = retained
              \/ /\ row[a].state = "dispatched" /\ c # NoAmount
                 /\ retained' = [retained EXCEPT ![a] = c]
        \/ /\ ~Sealed(a) /\ retained' = retained
           /\ row' = [row EXCEPT ![a].state = "settled"]
           /\ row[a].state # "dispatched" => bill'[a].outcome = "cancelled" /\ bill'[a].micro = 0
           /\ row[a].state = "dispatched" /\ c # NoAmount => bill'[a].outcome = o /\ bill'[a].micro = c
           /\ row[a].state = "dispatched" /\ c = NoAmount => bill'[a].outcome = "uncertain"
    BY <1>0, <2>1, SettleDoes
  <2>4. retained'[a] = retained[a] \/ (retained'[a] \in Nat /\ retained'[a] = TrueCharge(a))
    BY <1>0, <2>3
  <2>5. /\ \A x \in Attempts : x # a => SameHold(x)
        /\ UNCHANGED <<gone, stored, live>>
        /\ \/ SameHold(a)
           \/ /\ Account!Exists(a) /\ retained'[a] # retained[a]
              /\ hold[a].actual = NoAmount /\ hold'[a].actual = retained'[a] /\ hold'[a].state = "confirmed"
              /\ hold'[a].seen = hold[a].seen /\ hold'[a].ceiling = hold[a].ceiling
    BY <1>0, <2>1, <2>4, HandOverDoes
  <2>6. TypeOK' /\ Cap!CapTypeOK'
    <3>1. FALSE \in BOOLEAN
      OBVIOUS
    <3> QED
      BY <1>0, <2>1, <2>4, <3>1, SettleType, HandOverType
  <2>7. OthersKept(a)
    BY <2>2, <2>5 DEF OthersKept
  <2>8. (TrueCharge(a)' = TrueCharge(a)) /\ (Called(a)' <=> Called(a))
    BY <2>2 DEF TrueCharge, Called
  <2>9. row'[a].state \in {row[a].state, "settled"} /\ row[a].state \in {"claimed", "dispatched"}
        /\ (Settled(a) => Settled(a)')
        /\ (Sealed(a) => row'[a] = row[a] /\ bill'[a] = bill[a])
        /\ (~Sealed(a) => row'[a].state = "settled")
    <3>1. row[a].state \in {"claimed", "dispatched"}
      BY <2>2 DEF Claimed
    <3>2. CASE row' = row /\ bill' = bill /\ Sealed(a)
      BY <3>1, <3>2 DEF Settled
    <3>3. CASE ~Sealed(a) /\ row' = [row EXCEPT ![a].state = "settled"]
      BY <1>0, <3>1, <3>3 DEF Row, Settled
    <3> QED
      BY <2>3, <3>2, <3>3
  <2>10. SentRow(a)' /\ (Account!Exists(a)' <=> Account!Exists(a))
         /\ (hold[a].actual # NoAmount => hold'[a].actual # NoAmount)
    BY <1>0, <2>2, <2>4, <2>5, <2>8, <2>9 DEF SentRow, Account!Exists, SameHold
  <2>11. ~Called(a) => TrueCharge(a) = 0
    BY DEF TrueCharge
  <2>12. row[a].state = "claimed" => ~Called(a)
    BY <1>0 DEF SentRow
  <2>13. CASE Sealed(a)
    <3>1. Known(a)' <=> Known(a)
      BY <2>2, <2>9, <2>13 DEF Known, Settled
    <3>2. TrueRow(a)'
      BY <1>0, <2>2, <2>4, <2>5, <2>8, <2>9, <2>13, <3>1 DEF TrueRow, MaybeTrue, SameHold, Settled
    <3> QED
      BY <2>2, <2>5, <2>6, <2>7, <2>8, <2>9, <2>10, <2>13, <3>1, <3>2, OneTaught DEF Books, SameHold
  <2>14. CASE ~Sealed(a)
    <3>1. SameHold(a) /\ retained' = retained
      BY <2>3, <2>5, <2>14
    <3>2. fix[a].kind = "none" /\ ~Known(a)
      BY <1>0, <2>9 DEF TrueRow, Known, Settled
    <3>3. Known(a)' => bill'[a].micro = TrueCharge(a)
      BY <1>0, <2>2, <2>3, <2>9, <2>11, <2>12, <2>14, <3>2 DEF Known, Settled
    <3>4. TrueRow(a)'
      BY <1>0, <2>2, <2>8, <3>1, <3>2, <3>3 DEF TrueRow, MaybeTrue, SameHold
    <3> QED
      BY <2>2, <2>5, <2>6, <2>7, <2>8, <2>9, <2>10, <2>14, <3>1, <3>2, <3>4, OneTaught DEF Books, SameHold
  <2> QED
    BY <2>13, <2>14
<1> QED
  BY <1>1, <1>2

\* An observed charge reaches the row, or the hold behind the fence.
LEMMA ObserveKeeps ==
  ASSUME Books, live, NEW a \in Attempts, NEW g \in Generations \cup {NoGeneration}, NEW c \in MaybeTrue(a),
         ObserveCost(a, g, c),
         HandOver(a) \/ (~Sealed(a) /\ UNCHANGED <<hold, gone, stored>> /\ live' \in {live, FALSE})
  PROVE  /\ Books' /\ Teaches /\ OthersKept(a)
         /\ UNCHANGED <<row, reach, sealed, gone, stored>>
         /\ up' => UNCHANGED <<token, up>>
         /\ \A x \in Attempts : token'[x] \in {token[x], "none"}
         /\ hold'[a].state = hold[a].state \/ Account!Exists(a)'
         /\ row[a].state \in {"dispatched", "settled"}
<1>0. /\ TypeOK /\ Cap!CapTypeOK /\ TrueRow(a) /\ SentRow(a)
      /\ c \in MaybeAmount /\ (c # NoAmount => c \in Nat /\ c = TrueCharge(a))
      /\ retained \in [Attempts -> MaybeAmount]
  BY ChargeFacts DEF Books, BookRows, TypeOK, MaybeTrue, MaybeAmount
<1>1. /\ \A x \in Attempts : x # a => SameSession(x)
      /\ up /\ UNCHANGED <<row, reach, sealed>>
      /\ row[a].state \in {"dispatched", "settled"}
      /\ cost'[a].started = cost[a].started
      /\ up' => UNCHANGED <<token, up>>
      /\ \A x \in Attempts : token'[x] \in {token[x], "none"}
  BY <1>0, ObserveDoes
<1>2. Sealed(a) => /\ up' /\ UNCHANGED <<bill, cost, fix>>
                   /\ retained' = retained \/ (c # NoAmount /\ retained' = [retained EXCEPT ![a] = c])
  BY <1>0, ObserveDoes
<1>3. ~Sealed(a) => /\ retained' = retained
                    /\ cost'[a].charged = IF c = NoAmount THEN cost[a].charged ELSE c
                    /\ \/ bill'[a] = bill[a] /\ fix'[a] = fix[a]
                       \/ /\ c # NoAmount /\ Settled(a) /\ CostAccepted(a, "receipt", c)
                          /\ bill'[a].outcome = bill[a].outcome /\ bill'[a].micro = c
                          /\ fix'[a].kind = "receipt" /\ fix'[a].micro = c
  BY <1>0, ObserveDoes
<1>4. retained'[a] = retained[a] \/ (retained'[a] \in Nat /\ retained'[a] = TrueCharge(a))
  BY <1>0, <1>2, <1>3
<1>5. /\ \A x \in Attempts : x # a => SameHold(x)
      /\ UNCHANGED <<gone, stored>>
      /\ \/ SameHold(a)
         \/ /\ Account!Exists(a) /\ retained'[a] # retained[a]
            /\ hold[a].actual = NoAmount /\ hold'[a].actual = retained'[a] /\ hold'[a].state = "confirmed"
            /\ hold'[a].seen = hold[a].seen /\ hold'[a].ceiling = hold[a].ceiling
  <2>1. CASE HandOver(a)
    BY <1>0, <1>4, <2>1, HandOverDoes
  <2>2. CASE ~Sealed(a) /\ UNCHANGED <<hold, gone, stored>> /\ live' \in {live, FALSE}
    BY <2>2 DEF SameHold
  <2> QED
    BY <2>1, <2>2
<1>6. TypeOK' /\ Cap!CapTypeOK'
  <2>1. TypeOK'
    BY <1>0, ObserveCostType
  <2>2. CASE HandOver(a)
    BY <1>0, <1>4, <2>1, <2>2, HandOverType
  <2>3. CASE ~Sealed(a) /\ UNCHANGED <<hold, gone, stored>> /\ live' \in {live, FALSE}
    <3>1. Cap!CapTypeOK'
      BY <1>0, <2>3 DEF Cap!CapTypeOK, Cap!Settled, Cap!Exists
    <3> QED
      BY <2>1, <3>1
  <2> QED
    BY <2>2, <2>3
<1>7. OthersKept(a)
  BY <1>1, <1>5 DEF OthersKept
<1>8. (TrueCharge(a)' = TrueCharge(a)) /\ (Called(a)' <=> Called(a)) /\ (Settled(a)' <=> Settled(a))
  BY <1>1 DEF TrueCharge, Called, Settled
<1>9. SentRow(a)' /\ (Account!Exists(a)' <=> Account!Exists(a))
      /\ (hold[a].actual # NoAmount => hold'[a].actual # NoAmount)
      /\ (hold'[a].state = hold[a].state \/ Account!Exists(a)')
  BY <1>0, <1>1, <1>4, <1>5, <1>8 DEF SentRow, Account!Exists, SameHold
<1>10. CASE Sealed(a)
  <2>1. Known(a)' <=> Known(a)
    BY <1>1, <1>2, <1>10 DEF Known, Settled
  <2>2. TrueRow(a)'
    BY <1>0, <1>1, <1>2, <1>4, <1>5, <1>8, <1>10, <2>1 DEF TrueRow, MaybeTrue, SameHold
  <2> QED
    BY <1>1, <1>5, <1>6, <1>7, <1>8, <1>9, <2>1, <2>2, OneTaught DEF Books
<1>11. CASE ~Sealed(a)
  <2>1. SameHold(a) /\ retained' = retained
    BY <1>3, <1>5, <1>11
  <2>2. cost'[a].charged \in MaybeTrue(a)
    BY <1>0, <1>3, <1>11 DEF TrueRow, MaybeTrue
  <2>3. CASE bill'[a] = bill[a] /\ fix'[a] = fix[a]
    <3>1. Known(a)' <=> Known(a)
      BY <1>8, <2>3 DEF Known
    <3>2. TrueRow(a)'
      BY <1>0, <1>8, <2>1, <2>2, <2>3, <3>1 DEF TrueRow, MaybeTrue, SameHold
    <3> QED
      BY <1>1, <1>6, <1>7, <1>8, <1>9, <2>1, <3>1, <3>2, OneTaught, <1>5 DEF Books
  <2>4. CASE /\ c # NoAmount /\ Settled(a) /\ CostAccepted(a, "receipt", c)
             /\ bill'[a].outcome = bill[a].outcome /\ bill'[a].micro = c
             /\ fix'[a].kind = "receipt" /\ fix'[a].micro = c
    <3>1. Known(a)'
      BY <1>8, <2>4 DEF Known
    <3>2. TrueRow(a)'
      BY <1>0, <1>8, <2>1, <2>2, <2>4, <3>1 DEF TrueRow, MaybeTrue, SameHold
    <3>3. hold'[a].actual = hold[a].actual
      BY <2>1 DEF SameHold
    <3> QED
      BY <1>1, <1>6, <1>7, <1>8, <1>9, <1>5, <3>1, <3>2, <3>3, OneTaught DEF Books
  <2> QED
    BY <1>3, <1>11, <2>3, <2>4
<1> QED
  BY <1>10, <1>11

\* Evidence the receipt job posts reaches the row, or the hold behind the fence.
LEMMA ReconcileKeeps ==
  ASSUME Books, live, NEW a \in Attempts, NEW k \in {"estimate", "receipt"}, NEW c \in Nat,
         k = "receipt" => c = TrueCharge(a), ReconcileCost(a, k, c), HandOver(a)
  PROVE  /\ Books' /\ Teaches /\ OthersKept(a)
         /\ UNCHANGED <<row, reach, token, sealed, up, gone, stored, live>>
         /\ hold'[a].state = hold[a].state \/ Account!Exists(a)'
<1>0. /\ TypeOK /\ Cap!CapTypeOK /\ TrueRow(a) /\ SentRow(a)
      /\ retained \in [Attempts -> MaybeAmount] /\ c # NoAmount
  BY ChargeFacts DEF Books, BookRows, TypeOK
<1>1. /\ \A x \in Attempts : x # a => SameSession(x)
      /\ up /\ Settled(a) /\ CostAccepted(a, k, c)
      /\ UNCHANGED <<row, cost, token, reach, sealed, up>>
  BY <1>0, ReconcileDoes
<1>2. Sealed(a) => /\ bill' = bill /\ fix' = fix
                   /\ retained' = retained \/ (k = "receipt" /\ retained' = [retained EXCEPT ![a] = c])
  BY <1>0, ReconcileDoes
<1>3. ~Sealed(a) => /\ retained' = retained
                    /\ bill'[a].outcome = bill[a].outcome /\ bill'[a].micro = c
                    /\ fix'[a].kind = k /\ fix'[a].micro = c
  BY <1>0, ReconcileDoes
<1>4. retained'[a] = retained[a] \/ (retained'[a] \in Nat /\ retained'[a] = TrueCharge(a))
  BY <1>0, <1>2, <1>3
<1>5. /\ \A x \in Attempts : x # a => SameHold(x)
      /\ UNCHANGED <<gone, stored, live>>
      /\ \/ SameHold(a)
         \/ /\ Account!Exists(a) /\ retained'[a] # retained[a]
            /\ hold[a].actual = NoAmount /\ hold'[a].actual = retained'[a] /\ hold'[a].state = "confirmed"
            /\ hold'[a].seen = hold[a].seen /\ hold'[a].ceiling = hold[a].ceiling
  BY <1>0, <1>4, HandOverDoes
<1>6. TypeOK' /\ Cap!CapTypeOK'
  BY <1>0, <1>4, ReconcileCostType, HandOverType
<1>7. OthersKept(a)
  BY <1>1, <1>5 DEF OthersKept
<1>8. (TrueCharge(a)' = TrueCharge(a)) /\ (Called(a)' <=> Called(a)) /\ Settled(a)'
  BY <1>1 DEF TrueCharge, Called, Settled
<1>9. SentRow(a)' /\ (Account!Exists(a)' <=> Account!Exists(a))
      /\ (hold[a].actual # NoAmount => hold'[a].actual # NoAmount)
      /\ (hold'[a].state = hold[a].state \/ Account!Exists(a)')
  BY <1>0, <1>1, <1>4, <1>5, <1>8 DEF SentRow, Account!Exists, SameHold
<1>10. CASE Sealed(a)
  <2>1. Known(a)' <=> Known(a)
    BY <1>1, <1>2, <1>8, <1>10 DEF Known
  <2>2. TrueRow(a)'
    BY <1>0, <1>1, <1>2, <1>4, <1>5, <1>8, <1>10, <2>1 DEF TrueRow, MaybeTrue, SameHold
  <2> QED
    BY <1>1, <1>5, <1>6, <1>7, <1>8, <1>9, <2>1, <2>2, OneTaught DEF Books
<1>11. CASE ~Sealed(a)
  <2>1. SameHold(a) /\ retained' = retained
    BY <1>3, <1>5, <1>11
  <2>2. Known(a) => bill[a].micro = TrueCharge(a)
    BY <1>0 DEF TrueRow
  <2>3. Known(a)' => bill'[a].micro = TrueCharge(a)
    <3>1. CASE k = "receipt"
      BY <1>3, <1>11, <3>1
    <3>2. CASE k = "estimate" /\ bill[a].outcome # "uncertain"
      <4>1. Known(a) /\ bill[a].micro = c
        BY <1>1, <3>2 DEF Known, CostAccepted
      <4> QED
        BY <1>3, <1>11, <2>2, <4>1
    <3>3. CASE k = "estimate" /\ bill[a].outcome = "uncertain"
      BY <1>3, <1>11, <3>3 DEF Known
    <3> QED
      BY <3>1, <3>2, <3>3
  <2>4. Known(a) => Known(a)'
    <3>1. fix[a].kind = "receipt" => FALSE
      BY <1>1 DEF CostAccepted
    <3> QED
      BY <1>3, <1>8, <1>11, <3>1 DEF Known
  <2>5. TrueRow(a)'
    BY <1>0, <1>1, <1>3, <1>8, <1>11, <2>1, <2>3 DEF TrueRow, MaybeTrue, SameHold
  <2>6. hold'[a].actual = hold[a].actual
    BY <2>1 DEF SameHold
  <2> QED
    BY <1>1, <1>5, <1>6, <1>7, <1>8, <1>9, <2>4, <2>5, <2>6, OneTaught DEF Books
<1> QED
  BY <1>10, <1>11

\* A step of the account alone that leaves the holds true.
LEMMA HoldKeeps ==
  ASSUME Books, NEW a \in Attempts, UNCHANGED ledger, [Cap!CapNext]_<<hold, gone, stored, live>>,
         \A x \in Attempts : x # a => SameHold(x),
         Account!Exists(a), Account!Exists(a)',
         hold'[a].actual \in MaybeTrue(a), hold'[a].seen \in MaybeTrue(a),
         hold[a].actual # NoAmount => hold'[a].actual # NoAmount,
         hold'[a].ceiling = hold[a].ceiling,
         hold[a].state # "reserved" \/ ~Called(a) => hold'[a].state # "reserved" \/ ~Called(a)
  PROVE  Books' /\ Teaches /\ OthersKept(a)
<1>0. TypeOK /\ Cap!CapTypeOK /\ TrueRow(a) /\ SentRow(a)
  BY DEF Books, BookRows
<1>1. UNCHANGED <<row, bill, observed, cost, fix, audit, token, reach, sealed, retained, up>>
  BY DEF ledger, vars
<1>2. TypeOK' /\ Cap!CapTypeOK'
  <2>1. TypeOK'
    BY <1>0, <1>1 DEF TypeOK
  <2> QED
    BY <1>0, <2>1, AccountStep
<1>3. OthersKept(a)
  BY <1>1 DEF OthersKept, SameSession
<1>4. (MaybeTrue(a)' = MaybeTrue(a)) /\ (TrueCharge(a)' = TrueCharge(a)) /\ (Called(a)' <=> Called(a))
      /\ (Known(a)' <=> Known(a)) /\ (Settled(a)' <=> Settled(a))
  BY <1>1 DEF MaybeTrue, TrueCharge, Called, Known, Settled
<1>5. TrueRow(a)'
  BY <1>0, <1>1, <1>4 DEF TrueRow
<1>6. SentRow(a)'
  BY <1>0, <1>1, <1>4 DEF SentRow, Account!Exists
<1> QED
  BY <1>2, <1>3, <1>4, <1>5, <1>6, OneTaught DEF Books

\* A hold takes the true charge.
LEMMA ConfirmKeeps ==
  ASSUME Books, NEW a \in Attempts, NEW c \in Nat, c = TrueCharge(a), UNCHANGED ledger,
         [Cap!CapNext]_<<hold, gone, stored, live>>, Account!Exists(a), hold' = Cap!Confirmed(a, c)
  PROVE  Books' /\ Teaches /\ OthersKept(a) /\ Account!Exists(a)'
         /\ (hold[a].state # "reserved" => hold'[a].state # "reserved")
<1>0. Cap!CapTypeOK /\ TrueRow(a) /\ SentRow(a)
  BY DEF Books, BookRows
<1>1. /\ \A x \in Attempts : x # a => SameHold(x)
      /\ \/ hold[a].actual # NoAmount /\ SameHold(a)
         \/ /\ hold[a].actual = NoAmount /\ hold'[a].actual = c /\ hold'[a].state = "confirmed"
            /\ hold'[a].seen = hold[a].seen /\ hold'[a].ceiling = hold[a].ceiling
  BY <1>0, ConfirmDoes
<1>2. /\ Account!Exists(a)' /\ (hold[a].state # "reserved" => hold'[a].state # "reserved")
      /\ hold'[a].actual \in MaybeTrue(a) /\ hold'[a].seen \in MaybeTrue(a)
      /\ hold[a].actual # NoAmount => hold'[a].actual # NoAmount
      /\ hold'[a].ceiling = hold[a].ceiling
  BY <1>0, <1>1, ChargeFacts DEF TrueRow, MaybeTrue, SameHold, Account!Exists
<1>3. hold[a].state # "reserved" \/ ~Called(a) => hold'[a].state # "reserved" \/ ~Called(a)
  BY <1>2
<1> QED
  BY <1>1, <1>2, <1>3, HoldKeeps

\* The account settles a hold with the true charge, or leaves it.
LEMMA SettleAccountKeeps ==
  ASSUME Books, live, NEW a \in Attempts, NEW c \in Nat, c = TrueCharge(a), UNCHANGED ledger, SettleAccount(a, c)
  PROVE  Books' /\ Teaches /\ OthersKept(a) /\ UNCHANGED <<gone, stored, live>>
         /\ (Account!Exists(a)' <=> Account!Exists(a))
<1>0. TypeOK /\ Cap!CapTypeOK /\ TrueRow(a) /\ SentRow(a)
  BY DEF Books, BookRows
<1>1. CASE UNCHANGED account
  <2>1. UNCHANGED <<row, bill, observed, cost, fix, audit, token, reach, sealed, retained, up>>
        /\ UNCHANGED <<hold, gone, stored, live>>
    BY <1>1 DEF ledger, vars, account
  <2>2. TypeOK' /\ live' \in BOOLEAN
    BY <1>0, <2>1 DEF TypeOK
  <2>3. Books' /\ Teaches /\ \A x \in Attempts : SameSession(x) /\ SameHold(x)
    BY <2>1, <2>2, Untouched
  <2> QED
    BY <2>1, <2>3 DEF OthersKept, Teaches
<1>2. CASE Account!Exists(a) /\ Cap!Settle(a, c)
  <2>1. [Cap!CapNext]_<<hold, gone, stored, live>>
    BY <1>2 DEF Cap!CapNext
  <2>2. hold' = Cap!Confirmed(a, c) /\ UNCHANGED <<gone, stored, live>>
    BY <1>2 DEF Cap!Settle
  <2> QED
    BY <1>2, <2>1, <2>2, ConfirmKeeps
<1> QED
  BY <1>1, <1>2, AccountSteps DEF SettleAccount

-----------------------------------------------------------------------------
(* The invocations and the receipt job *)

Stages == {"idle", "begun", "reserved", "marked", "ready", "waiting", "late", "heard", "noted", "ending", "over"}
CallsOK == call \in [Attempts -> [at : Stages, ended : BOOLEAN, aborted : BOOLEAN, cost : MaybeAmount]]

\* An invocation that has neither sent its request nor been told to end.
Fresh(x) == call[x].at \in {"idle", "reserved", "marked", "ready"} \/ (call[x].at = "begun" /\ ~call[x].aborted)

\* Where an invocation is, in the terms of both books.
CallRow(x) ==
  /\ Fresh(x) => /\ ~Called(x) /\ ~Settled(x) /\ hold[x].actual = NoAmount /\ hold[x].seen = NoAmount
                 /\ retained[x] = NoAmount /\ cost[x].charged = NoAmount /\ fix[x].kind = "none"
  /\ call[x].at = "idle" => call[x] = NewCall
  /\ call[x].at \in {"idle", "begun"} => hold[x].state = "none"
  /\ call[x].at \in {"reserved", "marked"} => Account!Exists(x)
  /\ call[x].at = "ready" => hold[x].state \notin {"none", "reserved"}
  /\ call[x].cost # NoAmount => Called(x) /\ call[x].cost = ChargeOf[x]
  /\ call[x].at \in {"waiting", "late", "heard", "noted"} => Called(x)
  /\ call[x].at \in {"heard", "noted"} => call[x].cost # NoAmount

\* An invocation starts with a claim of this process, and only once.
ClaimRow(x) ==
  /\ call[x].at # "idle" \/ token[x] # "none" => row[x].state # "none"
  /\ token[x] = "held" => row[x].state \in {"claimed", "settled"}
  /\ up /\ ~Sealed(x) /\ (row[x].state = "admitted" \/ (row[x].state = "claimed" /\ token[x] = "held"))
       => call[x].at = "idle"

CallRows == \A x \in Attempts : CallRow(x) /\ ClaimRow(x)

\* Before startup is done nothing is under way, and no row of this account was purged.
Quiet ==
  /\ ~up => ~live
  /\ ~live => job = NoJob /\ \A x \in Attempts : call[x].at = "over" \/ (call[x].at = "idle" /\ row[x].state = "none")
  /\ gone = [spent |-> 0, reserved |-> 0, uncertain |-> 0, breached |-> FALSE] /\ stored = NoAmount

\* The receipt job works on a settled row, and a receipt it carries is true.
Jobs == [on : Attempts \cup {NoAttempt}, at : {"idle", "asking", "saving", "posting", "spending"},
         kind : {"none", "receipt", "estimate"}, micro : MaybeAmount, saved : MaybeAmount]
JobTrue ==
  /\ job \in Jobs
  /\ job.on # NoAttempt =>
       /\ Settled(job.on) /\ job.at # "idle"
       /\ job.saved \in MaybeTrue(job.on)
       /\ job.at # "asking" => /\ job.kind \in {"receipt", "estimate"} /\ job.micro \in Nat
                               /\ job.kind = "receipt" => job.micro = TrueCharge(job.on)

CallInv == Books /\ CallsOK /\ CallRows /\ Quiet /\ JobTrue

\* An attempt whose books and invocation are left alone.
LEMMA CallKept ==
  ASSUME NEW x \in Attempts, CallRow(x), ClaimRow(x), SameSession(x), SameHold(x), call'[x] = call[x],
         token'[x] \in {token[x], "none"}, Sealed(x) => Sealed(x)', up' => up
  PROVE  CallRow(x)' /\ ClaimRow(x)'
<1>1. CallRow(x)'
  BY DEF CallRow, Fresh, SameSession, SameHold, Called, Settled, Account!Exists
<1>2. ClaimRow(x)'
  BY DEF ClaimRow, SameSession
<1> QED
  BY <1>1, <1>2

\* The receipt job is left alone.
LEMMA JobKept == ASSUME Teaches, JobTrue, job' = job PROVE JobTrue'
<1>1. CASE job.on = NoAttempt
  BY <1>1 DEF JobTrue
<1>2. CASE job.on # NoAttempt
  <2>1. job.on \in Attempts
    BY <1>2 DEF JobTrue, Jobs
  <2>2. (Called(job.on)' <=> Called(job.on)) /\ (Settled(job.on) => Settled(job.on)')
    BY <2>1 DEF Teaches
  <2>3. (TrueCharge(job.on)' = TrueCharge(job.on)) /\ Settled(job.on)'
    BY <1>2, <2>2 DEF TrueCharge, Called, JobTrue
  <2>4. MaybeTrue(job.on)' = MaybeTrue(job.on)
    BY <2>3 DEF MaybeTrue
  <2> QED
    BY <1>2, <2>1, <2>3, <2>4 DEF JobTrue
<1> QED
  BY <1>1, <1>2

\* One step of a serving host for one attempt.
LEMMA ServingStep ==
  ASSUME CallInv, Serving, NEW a \in Attempts, Books', OthersKept(a), CallsOK', CallRow(a)', ClaimRow(a)', JobTrue',
         up', live', UNCHANGED <<gone, stored>>,
         \A x \in Attempts : x # a => /\ call'[x] = call[x] /\ token'[x] \in {token[x], "none"}
                                      /\ Sealed(x) => Sealed(x)'
  PROVE  CallInv'
<1>1. ASSUME NEW x \in Attempts PROVE CallRow(x)' /\ ClaimRow(x)'
  <2>1. CASE x = a
    BY <2>1
  <2>2. CASE x # a
    <3>1. up
      BY DEF Serving
    <3> QED
      BY <2>2, <3>1, CallKept DEF OthersKept, CallInv, CallRows
  <2> QED
    BY <2>1, <2>2
<1>2. Quiet'
  BY DEF CallInv, Quiet
<1> QED
  BY <1>1, <1>2 DEF CallInv, CallRows

-----------------------------------------------------------------------------
(* The invocation, step by step *)

\* What holds of the attempt of a step.
LEMMA Before ==
  ASSUME CallInv, NEW a \in Attempts
  PROVE  /\ TypeOK /\ Cap!CapTypeOK /\ TrueRow(a) /\ SentRow(a) /\ CallRow(a) /\ ClaimRow(a)
         /\ row \in [Attempts -> Row] /\ token \in [Attempts -> {"none", "held", "spent"}]
         /\ call \in [Attempts -> [at : Stages, ended : BOOLEAN, aborted : BOOLEAN, cost : MaybeAmount]]
         /\ hold \in [Attempts -> Cap!Hold]
         /\ Serving => up /\ live
BY DEF CallInv, Books, BookRows, CallRows, CallsOK, TypeOK, Cap!CapTypeOK, Serving

\* The admission, or the claim, of an attempt.
LEMMA PrepareKeeps == ASSUME CallInv, NEW a \in Attempts, Prepare(a) PROVE CallInv' /\ Teaches
<1>0. /\ TypeOK /\ Cap!CapTypeOK /\ TrueRow(a) /\ SentRow(a) /\ CallRow(a) /\ ClaimRow(a)
      /\ row \in [Attempts -> Row] /\ token \in [Attempts -> {"none", "held", "spent"}]
      /\ up /\ live /\ Serving
  BY Before DEF Prepare
<1>1. UNCHANGED <<hold, gone, stored, live, call, job>>
  BY DEF Prepare, account
<1>2. /\ UNCHANGED <<bill, cost, fix, reach, sealed, retained, up>> /\ TypeOK'
      /\ \A x \in Attempts : x # a => row'[x] = row[x] /\ token'[x] = token[x]
      /\ ~Sealed(a)
      /\ \/ row[a].state = "none" /\ row'[a].state = "admitted" /\ token'[a] = token[a]
         \/ row[a].state = "admitted" /\ row'[a].state = "claimed" /\ token'[a] = "held"
  <2>1. ASSUME NEW q \in Quotes, Admit(a, q)
        PROVE  /\ UNCHANGED <<bill, cost, fix, reach, sealed, retained, up>> /\ TypeOK'
               /\ \A x \in Attempts : x # a => row'[x] = row[x] /\ token'[x] = token[x]
               /\ ~Sealed(a) /\ row[a].state = "none" /\ row'[a].state = "admitted" /\ token'[a] = token[a]
    BY <1>0, <2>1, AdmitType DEF Admit
  <2>2. ASSUME Claim(a)
        PROVE  /\ UNCHANGED <<bill, cost, fix, reach, sealed, retained, up>> /\ TypeOK'
               /\ \A x \in Attempts : x # a => row'[x] = row[x] /\ token'[x] = token[x]
               /\ ~Sealed(a) /\ row[a].state = "admitted" /\ row'[a].state = "claimed" /\ token'[a] = "held"
    BY <1>0, <2>2, ClaimType DEF Claim, Row
  <2> QED
    BY <2>1, <2>2 DEF Prepare
<1>3. OthersKept(a) /\ SameHold(a)
  BY <1>1, <1>2 DEF OthersKept, SameSession, SameHold
<1>4. /\ ~Settled(a) /\ ~Settled(a)' /\ ~Known(a) /\ ~Known(a)' /\ (Called(a)' <=> Called(a)) /\ ~Called(a)
      /\ (TrueCharge(a)' = TrueCharge(a)) /\ (Account!Exists(a)' <=> Account!Exists(a))
  BY <1>0, <1>1, <1>2 DEF Settled, Known, Called, TrueCharge, SentRow, Account!Exists
<1>5. TrueRow(a)' /\ SentRow(a)'
  BY <1>0, <1>1, <1>2, <1>4 DEF TrueRow, SentRow, MaybeTrue
<1>6. Cap!CapTypeOK'
  BY <1>0, <1>1 DEF Cap!CapTypeOK, Cap!Settled, Cap!Exists
<1>7. Books' /\ Teaches
  BY <1>2, <1>3, <1>4, <1>5, <1>6, OneTaught DEF Books, CallInv, SameHold
<1>8. CallRow(a)'
  BY <1>0, <1>1, <1>2, <1>4 DEF CallRow, Fresh, Account!Exists
<1>9. ClaimRow(a)'
  BY <1>0, <1>1, <1>2 DEF ClaimRow, Sealed
<1>10. CallsOK' /\ JobTrue'
  BY <1>1, <1>7, JobKept DEF CallsOK, CallInv
<1>11. \A x \in Attempts : Sealed(x) => Sealed(x)'
  BY <1>2 DEF Sealed
<1> QED
  BY <1>0, <1>1, <1>2, <1>3, <1>7, <1>8, <1>9, <1>10, <1>11, ServingStep

\* The claim is consumed.
LEMMA BeginKeeps == ASSUME CallInv, NEW a \in Attempts, Begin(a) PROVE CallInv' /\ Teaches
<1>0. /\ TypeOK /\ Cap!CapTypeOK /\ TrueRow(a) /\ SentRow(a) /\ CallRow(a) /\ ClaimRow(a)
      /\ row \in [Attempts -> Row] /\ token \in [Attempts -> {"none", "held", "spent"}]
      /\ call \in [Attempts -> [at : Stages, ended : BOOLEAN, aborted : BOOLEAN, cost : MaybeAmount]]
      /\ reach \in [Attempts -> {"unsent", "burned", "called"}]
      /\ up /\ live /\ Serving
  BY Before DEF Begin, TypeOK
<1>1. UNCHANGED <<hold, gone, stored, live, job>> /\ Consume(a)
      /\ call' = [call EXCEPT ![a].at = IF row'[a].state = "dispatched" THEN "begun" ELSE "over"]
  BY DEF Begin, account, Go
<1>2. /\ UNCHANGED <<bill, cost, fix, sealed, retained, up>> /\ TypeOK'
      /\ \A x \in Attempts : x # a => row'[x] = row[x] /\ token'[x] = token[x] /\ reach'[x] = reach[x]
      /\ token[a] = "held" /\ token'[a] = "spent"
      /\ \/ /\ row[a].state = "claimed" /\ ~Sealed(a)
            /\ row'[a].state = "dispatched" /\ reach'[a] = "burned"
         \/ row'[a] = row[a] /\ reach'[a] = reach[a] /\ ~(row[a].state = "claimed" /\ ~Sealed(a))
  <2>1. TypeOK'
    BY <1>0, <1>1, ConsumeType
  <2>2. CASE row[a].state = "claimed" /\ ~Sealed(a)
    BY <1>0, <1>1, <2>1, <2>2 DEF Consume, Row
  <2>3. CASE ~(row[a].state = "claimed" /\ ~Sealed(a))
    BY <1>0, <1>1, <2>1, <2>3 DEF Consume
  <2> QED
    BY <2>2, <2>3
<1>3. OthersKept(a) /\ SameHold(a)
  BY <1>1, <1>2 DEF OthersKept, SameSession, SameHold
<1>4. /\ row[a].state \in {"claimed", "settled"}
      /\ (Settled(a)' <=> Settled(a)) /\ (Known(a)' <=> Known(a)) /\ (Called(a)' <=> Called(a))
      /\ (TrueCharge(a)' = TrueCharge(a)) /\ (Account!Exists(a)' <=> Account!Exists(a))
  <2>1. row[a].state \in {"claimed", "settled"}
    BY <1>0, <1>2 DEF ClaimRow
  <2>2. Called(a)' <=> Called(a)
    BY <1>0, <1>2 DEF Called, SentRow
  <2>3. Settled(a)' <=> Settled(a)
    BY <1>2 DEF Settled
  <2> QED
    BY <1>1, <1>2, <2>1, <2>2, <2>3 DEF Known, TrueCharge, Account!Exists
<1>5. TrueRow(a)' /\ SentRow(a)'
  BY <1>0, <1>1, <1>2, <1>4 DEF TrueRow, SentRow, MaybeTrue
<1>6. Cap!CapTypeOK'
  BY <1>0, <1>1 DEF Cap!CapTypeOK, Cap!Settled, Cap!Exists
<1>7. Books' /\ Teaches
  BY <1>2, <1>3, <1>4, <1>5, <1>6, OneTaught DEF Books, CallInv, SameHold
<1>8. /\ \A x \in Attempts : x # a => call'[x] = call[x]
      /\ call'[a].at = (IF row'[a].state = "dispatched" THEN "begun" ELSE "over")
      /\ call'[a].aborted = call[a].aborted /\ call'[a].cost = call[a].cost
      /\ CallsOK'
  BY <1>0, <1>1 DEF CallsOK, Stages
<1>9. row'[a].state = "dispatched" => call[a].at = "idle"
  BY <1>0, <1>2, <1>4 DEF ClaimRow
<1>10. CallRow(a)'
  BY <1>0, <1>1, <1>2, <1>4, <1>8, <1>9 DEF CallRow, Fresh, NewCall
<1>11. ClaimRow(a)'
  BY <1>0, <1>2, <1>4, <1>8 DEF ClaimRow, Sealed
<1>12. JobTrue'
  BY <1>1, <1>7, JobKept DEF CallInv
<1>13. \A x \in Attempts : Sealed(x) => Sealed(x)'
  BY <1>2 DEF Sealed
<1> QED
  BY <1>0, <1>1, <1>2, <1>3, <1>7, <1>8, <1>10, <1>11, <1>12, <1>13, ServingStep

\* An invocation that ends with its report, wherever it was.
LEMMA EndKeeps ==
  ASSUME CallInv, Serving, NEW a \in Attempts, NEW o \in Outcomes, NEW c \in MaybeTrue(a), Report(a, o, c),
         row[a].state # "none", call[a].at = "idle" => ~call[a].ended,
         call' = [call EXCEPT ![a].at = "over", ![a].ended = TRUE], UNCHANGED job
  PROVE  CallInv' /\ Teaches
<1>0. /\ TypeOK /\ Cap!CapTypeOK /\ TrueRow(a) /\ SentRow(a) /\ CallRow(a) /\ ClaimRow(a)
      /\ call \in [Attempts -> [at : Stages, ended : BOOLEAN, aborted : BOOLEAN, cost : MaybeAmount]]
      /\ up /\ live /\ Books
  BY Before DEF CallInv
<1>1. /\ Books' /\ Teaches /\ OthersKept(a)
      /\ UNCHANGED <<cost, reach, token, sealed, up, gone, stored, live>>
      /\ row'[a].state \in {row[a].state, "settled"}
      /\ ~call[a].ended /\ ~Sealed(a) => row'[a].state = "settled"
  BY <1>0, ReportKeeps
<1>2. /\ \A x \in Attempts : x # a => call'[x] = call[x]
      /\ call'[a].at = "over" /\ call'[a].cost = call[a].cost
      /\ CallsOK'
  BY ZenonT(60), <1>0 DEF CallsOK, Stages
<1>3. (Called(a)' <=> Called(a)) /\ (Sealed(a)' <=> Sealed(a)) /\ \A x \in Attempts : Sealed(x) => Sealed(x)'
  BY <1>1 DEF Called, Sealed
<1>4. CallRow(a)'
  BY <1>0, <1>2, <1>3 DEF CallRow, Fresh
<1>5. ClaimRow(a)'
  BY <1>0, <1>1, <1>2, <1>3 DEF ClaimRow
<1>6. JobTrue'
  BY <1>1, JobKept DEF CallInv
<1> QED
  BY <1>0, <1>1, <1>2, <1>3, <1>4, <1>5, <1>6, ServingStep

\* An invocation refused before its dispatch, or stopped at it, cost nothing.
LEMMA RefuseKeeps == ASSUME CallInv, NEW a \in Attempts, Refuse(a) PROVE CallInv' /\ Teaches
<1>1. /\ Serving /\ Report(a, "cancelled", 0) /\ token[a] = "held" /\ call[a].at = "idle"
      /\ call' = [call EXCEPT ![a].at = "over", ![a].ended = TRUE] /\ UNCHANGED job
  BY DEF Refuse
<1>2. CallRow(a) /\ ClaimRow(a)
  BY Before
<1>3. 0 \in MaybeTrue(a)
  BY <1>1, <1>2 DEF CallRow, Fresh, MaybeTrue, TrueCharge
<1>4. row[a].state # "none" /\ ~call[a].ended
  BY <1>1, <1>2 DEF CallRow, ClaimRow, NewCall
<1> QED
  BY <1>1, <1>3, <1>4, EndKeeps DEF Outcomes

\* A call that is cancelled before it reserved costs nothing in either book.
LEMMA StopKeeps == ASSUME CallInv, NEW a \in Attempts, Stop(a) PROVE CallInv' /\ Teaches
<1>1. /\ Serving /\ Report(a, "cancelled", 0) /\ call[a].at = "begun"
      /\ call' = [call EXCEPT ![a].at = "over", ![a].ended = TRUE] /\ UNCHANGED job
  BY DEF Stop, At
<1>2. CallRow(a) /\ ClaimRow(a) /\ SentRow(a)
  BY Before
<1>3. 0 \in MaybeTrue(a)
  BY <1>1, <1>2 DEF CallRow, SentRow, MaybeTrue, TrueCharge
<1>4. row[a].state # "none"
  BY <1>1, <1>2 DEF ClaimRow
<1> QED
  BY <1>1, <1>3, <1>4, EndKeeps DEF Outcomes

\* An invocation that finishes reports the charge it heard, or none.
LEMMA FinishKeeps == ASSUME CallInv, NEW a \in Attempts, Finish(a) PROVE CallInv' /\ Teaches
<1>1. /\ Serving /\ call[a].at = "ending"
      /\ \E o \in Outcomes : Report(a, o, call[a].cost)
      /\ call' = [call EXCEPT ![a].at = "over", ![a].ended = TRUE] /\ UNCHANGED job
  BY DEF Finish, At, Outcomes
<1>2. CallRow(a) /\ ClaimRow(a)
  BY Before
<1>3. call[a].cost \in MaybeTrue(a)
  BY <1>2 DEF CallRow, MaybeTrue, TrueCharge
<1>4. row[a].state # "none"
  BY <1>1, <1>2 DEF ClaimRow
<1> QED
  BY <1>1, <1>3, <1>4, EndKeeps

\* An abort before the request reports that nothing was sent, one after it that
\* the charge is unknown.
LEMMA AbortKeeps == ASSUME CallInv, NEW a \in Attempts, Abort(a) PROVE CallInv' /\ Teaches
<1>0. /\ TypeOK /\ Cap!CapTypeOK /\ TrueRow(a) /\ SentRow(a) /\ CallRow(a) /\ ClaimRow(a)
      /\ call \in [Attempts -> [at : Stages, ended : BOOLEAN, aborted : BOOLEAN, cost : MaybeAmount]]
      /\ up /\ live /\ Serving /\ Books
  BY Before DEF CallInv, Abort
<1>1. PICK o \in Outcomes, c \in MaybeTrue(a) : Report(a, o, c)
  <2>1. CASE call[a].at = "begun"
    <3>1. Report(a, "cancelled", 0)
      BY <2>1 DEF Abort
    <3>2. 0 \in MaybeTrue(a)
      BY <1>0, <2>1 DEF CallRow, SentRow, MaybeTrue, TrueCharge
    <3> QED
      BY <3>1, <3>2 DEF Outcomes
  <2>2. CASE call[a].at # "begun"
    BY <2>2 DEF Abort, Outcomes, MaybeTrue
  <2> QED
    BY <2>1, <2>2
<1>2. /\ Books' /\ Teaches /\ OthersKept(a)
      /\ UNCHANGED <<cost, reach, token, sealed, up, gone, stored, live>>
      /\ row'[a].state \in {row[a].state, "settled"}
      /\ ~Account!Exists(a) => SameHold(a)
      /\ hold'[a].state = hold[a].state \/ Account!Exists(a)'
  BY <1>0, <1>1, ReportKeeps
<1>3. call' = [call EXCEPT ![a].aborted = TRUE, ![a].ended = TRUE] /\ call[a].at \in {"begun", "waiting"} /\ UNCHANGED job
  BY DEF Abort
<1>4. /\ \A x \in Attempts : x # a => call'[x] = call[x]
      /\ call'[a].at = call[a].at /\ call'[a].cost = call[a].cost /\ call'[a].aborted
      /\ CallsOK'
  BY ZenonT(60), <1>0, <1>3 DEF CallsOK, Stages
<1>5. (Called(a)' <=> Called(a)) /\ (Sealed(a)' <=> Sealed(a)) /\ \A x \in Attempts : Sealed(x) => Sealed(x)'
  BY <1>2 DEF Called, Sealed
<1>6. CallRow(a)'
  <2>1. call[a].at = "begun" => hold'[a].state = "none"
    BY <1>0, <1>2 DEF CallRow, Account!Exists, SameHold
  <2> QED
    BY <1>0, <1>3, <1>4, <1>5, <2>1 DEF CallRow, Fresh
<1>7. ClaimRow(a)'
  BY <1>0, <1>2, <1>3, <1>4, <1>5 DEF ClaimRow
<1>8. JobTrue'
  BY <1>2, <1>3, JobKept DEF CallInv
<1> QED
  BY <1>0, <1>2, <1>4, <1>5, <1>6, <1>7, <1>8, ServingStep

\* An invocation that moves on.
LEMMA Moves ==
  ASSUME CallsOK, NEW a \in Attempts, NEW s \in Stages, Go(a, s)
  PROVE  /\ \A x \in Attempts : x # a => call'[x] = call[x]
         /\ call'[a].at = s /\ call'[a].cost = call[a].cost /\ call'[a].aborted = call[a].aborted
         /\ CallsOK'
BY DEF CallsOK, Go

\* A step of an invocation under way, after which it is not waiting for a claim.
LEMMA UnderWay ==
  ASSUME NEW a \in Attempts, ClaimRow(a), call[a].at # "idle", row'[a].state # "none",
         row'[a] = row[a], token'[a] = token[a], up, UNCHANGED sealed
  PROVE  ClaimRow(a)' /\ \A x \in Attempts : Sealed(x) => Sealed(x)'
BY DEF ClaimRow, Sealed

\* The hold is made.
LEMMA ReserveKeeps ==
  ASSUME CallInv, NEW a \in Attempts, ReserveSpend(a)
  PROVE  /\ CallInv' /\ OthersKept(a) /\ UNCHANGED ledger
         /\ Fresh(a) /\ Cap!Reserve(a, Ceiling)
         /\ hold[a].state = "none" /\ Account!Exists(a)' /\ hold'[a].actual = NoAmount
<1>0. /\ TypeOK /\ Cap!CapTypeOK /\ TrueRow(a) /\ SentRow(a) /\ CallRow(a) /\ ClaimRow(a)
      /\ call \in [Attempts -> [at : Stages, ended : BOOLEAN, aborted : BOOLEAN, cost : MaybeAmount]]
      /\ hold \in [Attempts -> Cap!Hold] /\ up /\ live /\ Serving /\ Books /\ CallsOK
  BY Before DEF CallInv, ReserveSpend, At
<1>1. /\ call[a].at = "begun" /\ ~call[a].aborted /\ Cap!Reserve(a, Ceiling) /\ Go(a, "reserved")
      /\ UNCHANGED job /\ UNCHANGED ledger
  BY AccountSteps DEF ReserveSpend, At
<1>2. UNCHANGED <<row, bill, observed, cost, fix, audit, token, reach, sealed, retained, up>>
  BY <1>1 DEF ledger, vars
<1>3. /\ UNCHANGED <<gone, stored, live>> /\ \A x \in Attempts : x # a => SameHold(x)
      /\ hold[a].state = "none" /\ hold'[a].state = "reserved" /\ hold'[a].actual = NoAmount /\ hold'[a].seen = NoAmount
      /\ hold'[a].ceiling = Ceiling
  BY <1>0, <1>1 DEF Cap!Reserve, Cap!NoHold, SameHold
<1>4. OthersKept(a)
  BY <1>2, <1>3 DEF OthersKept, SameSession
<1>5. TypeOK' /\ Cap!CapTypeOK'
  <2>1. [Cap!CapNext]_<<hold, gone, stored, live>>
    BY <1>0, <1>1 DEF Cap!CapNext
  <2>2. TypeOK'
    BY <1>0, <1>2 DEF TypeOK
  <2> QED
    BY <1>0, <2>1, <2>2, AccountStep
<1>6. Fresh(a) /\ ~Called(a) /\ (Called(a)' <=> Called(a)) /\ (TrueCharge(a)' = TrueCharge(a))
      /\ (Known(a)' <=> Known(a)) /\ (Settled(a)' <=> Settled(a))
  BY <1>0, <1>1, <1>2 DEF Fresh, CallRow, Called, TrueCharge, Known, Settled
<1>7. TrueRow(a)' /\ SentRow(a)'
  BY <1>0, <1>2, <1>3, <1>6 DEF TrueRow, SentRow, MaybeTrue, Account!Exists
<1>8. \A x \in Attempts : TrueRow(x)' /\ SentRow(x)'
  BY <1>4, <1>7, <1>0, BooksKept DEF OthersKept, Books, BookRows
<1>9. Books'
  BY <1>5, <1>8 DEF Books, BookRows
<1>10. /\ \A x \in Attempts : x # a => call'[x] = call[x]
       /\ call'[a].at = "reserved" /\ call'[a].cost = call[a].cost /\ CallsOK'
  BY <1>0, <1>1, Moves DEF Stages
<1>11. CallRow(a)'
  BY <1>0, <1>2, <1>3, <1>6, <1>10 DEF CallRow, Fresh, Account!Exists
<1>12. ClaimRow(a)' /\ \A x \in Attempts : Sealed(x) => Sealed(x)'
  BY <1>0, <1>1, <1>2, UnderWay DEF ClaimRow
<1>13. JobTrue'
  <2>1. job.on \in Attempts => (Called(job.on)' <=> Called(job.on)) /\ (Settled(job.on)' <=> Settled(job.on))
    BY <1>2, <1>1 DEF Called, Settled
  <2>2. job.on \in Attempts => (TrueCharge(job.on)' = TrueCharge(job.on)) /\ (MaybeTrue(job.on)' = MaybeTrue(job.on))
    BY <1>1, <2>1 DEF TrueCharge, MaybeTrue
  <2> QED
    BY <1>1, <2>1, <2>2 DEF JobTrue, Jobs, CallInv
<1>14. Account!Exists(a)'
  BY <1>3 DEF Account!Exists
<1> QED
  BY <1>0, <1>1, <1>2, <1>3, <1>4, <1>6, <1>9, <1>10, <1>11, <1>12, <1>13, <1>14, ServingStep

\* The request leaves.  Nothing is on record of it so far, so nothing on record
\* of it is untrue.
LEMMA FetchKeeps ==
  ASSUME CallInv, NEW a \in Attempts, Fetch(a)
  PROVE  /\ CallInv' /\ OthersKept(a) /\ UNCHANGED <<row, bill, fix, hold, gone, stored, live>>
         /\ Fresh(a) /\ Account!Exists(a) /\ ~Called(a) /\ Called(a)'
<1>0. /\ TypeOK /\ Cap!CapTypeOK /\ TrueRow(a) /\ SentRow(a) /\ CallRow(a) /\ ClaimRow(a)
      /\ call \in [Attempts -> [at : Stages, ended : BOOLEAN, aborted : BOOLEAN, cost : MaybeAmount]]
      /\ reach \in [Attempts -> {"unsent", "burned", "called"}]
      /\ up /\ live /\ Serving /\ Books /\ CallsOK
  BY Before DEF CallInv, Fetch, At, TypeOK
<1>1. /\ call[a].at = "ready" /\ CallProvider(a) /\ Go(a, "waiting")
      /\ UNCHANGED <<hold, gone, stored, live, job>>
  BY DEF Fetch, At, account
<1>2. /\ UNCHANGED <<row, bill, observed, cost, fix, audit, token, sealed, retained, up>>
      /\ row[a].state = "dispatched" /\ cost[a].started
      /\ reach' = [reach EXCEPT ![a] = "called"]
  BY <1>1, ChargeFacts DEF CallProvider
<1>3. Called(a)' /\ \A x \in Attempts : x # a => reach'[x] = reach[x]
  BY <1>0, <1>2 DEF Called
<1>4. OthersKept(a)
  BY <1>1, <1>2, <1>3 DEF OthersKept, SameSession, SameHold
<1>5. TypeOK' /\ Cap!CapTypeOK'
  <2>1. TypeOK'
    BY <1>0, <1>2 DEF TypeOK
  <2>2. [Cap!CapNext]_<<hold, gone, stored, live>>
    BY <1>1
  <2> QED
    BY <1>0, <2>1, <2>2, AccountStep
<1>6. /\ Fresh(a) /\ ~Called(a) /\ ~Settled(a) /\ ~Settled(a)' /\ hold[a].state \notin {"none", "reserved"}
      /\ hold[a].actual = NoAmount /\ hold[a].seen = NoAmount /\ retained[a] = NoAmount
      /\ cost[a].charged = NoAmount /\ fix[a].kind = "none"
  BY <1>0, <1>1, <1>2 DEF Fresh, CallRow, Settled
<1>7. TrueRow(a)' /\ SentRow(a)' /\ Account!Exists(a)
  BY <1>0, <1>1, <1>2, <1>6 DEF TrueRow, SentRow, MaybeTrue, Known, Account!Exists
<1>8. Books'
  <2>1. \A x \in Attempts : TrueRow(x)' /\ SentRow(x)'
    BY <1>4, <1>7, <1>0, BooksKept DEF OthersKept, Books, BookRows
  <2> QED
    BY <1>5, <2>1 DEF Books, BookRows
<1>9. /\ \A x \in Attempts : x # a => call'[x] = call[x]
      /\ call'[a].at = "waiting" /\ call'[a].cost = call[a].cost /\ CallsOK'
  BY <1>0, <1>1, Moves DEF Stages
<1>10. CallRow(a)'
  BY <1>0, <1>3, <1>6, <1>9 DEF CallRow, Fresh
<1>11. ClaimRow(a)' /\ \A x \in Attempts : Sealed(x) => Sealed(x)'
  BY <1>0, <1>1, <1>2, UnderWay DEF ClaimRow
<1>12. JobTrue'
  <2>1. job.on \in Attempts /\ Settled(job.on) => SameSession(job.on)
    BY <1>4, <1>6 DEF OthersKept
  <2>2. job.on \in Attempts /\ Settled(job.on) =>
           Settled(job.on)' /\ (TrueCharge(job.on)' = TrueCharge(job.on)) /\ (MaybeTrue(job.on)' = MaybeTrue(job.on))
    BY <1>1, <2>1 DEF SameSession, TrueCharge, MaybeTrue, Called, Settled
  <2> QED
    BY <1>1, <2>2 DEF JobTrue, Jobs, CallInv
<1> QED
  BY <1>0, <1>1, <1>2, <1>3, <1>4, <1>6, <1>7, <1>8, <1>9, <1>10, <1>11, <1>12, ServingStep

\* The dispatch goes on record; behind the fence the hold is given up instead.
LEMMA DispatchCostKeeps == ASSUME CallInv, NEW a \in Attempts, DispatchCost(a) PROVE CallInv' /\ Teaches
<1>0. /\ TypeOK /\ Cap!CapTypeOK /\ TrueRow(a) /\ SentRow(a) /\ CallRow(a) /\ ClaimRow(a)
      /\ call[a].at = "reserved" /\ UNCHANGED job
      /\ hold \in [Attempts -> Cap!Hold] /\ cost \in [Attempts -> Cost]
      /\ up /\ live /\ Serving /\ Books /\ CallsOK
  BY Before DEF CallInv, DispatchCost, At, TypeOK
<1>1. Fresh(a) /\ Account!Exists(a) /\ ~Called(a) /\ hold[a].actual = NoAmount /\ hold[a].seen = NoAmount
  BY <1>0 DEF CallRow, Fresh
<1>2. CASE Sealed(a)
  <2>1. Unresolved(a) /\ Go(a, "ending") /\ UNCHANGED ledger
    BY <1>2 DEF DispatchCost
  <2>2. Cap!MarkUncertain(a)
    BY <1>1, <2>1, AccountSteps, AccountReads DEF Unresolved, Account!Unsettled
  <2>3. /\ \A x \in Attempts : x # a => SameHold(x)
        /\ hold'[a].state = "uncertain" /\ hold'[a].actual = hold[a].actual /\ hold'[a].seen = hold[a].seen
        /\ hold'[a].ceiling = hold[a].ceiling /\ UNCHANGED <<gone, stored, live>>
    BY <1>0, <2>2 DEF Cap!MarkUncertain, Cap!Hold, SameHold
  <2>4. Books' /\ Teaches /\ OthersKept(a)
    <3>1. [Cap!CapNext]_<<hold, gone, stored, live>>
      BY <1>0, <2>2 DEF Cap!CapNext
    <3>2. hold'[a].actual \in MaybeTrue(a) /\ hold'[a].seen \in MaybeTrue(a) /\ Account!Exists(a)'
      BY <1>1, <2>3 DEF MaybeTrue, Account!Exists
    <3> QED
      BY <1>0, <1>1, <2>1, <2>3, <3>1, <3>2, HoldKeeps
  <2>5. UNCHANGED <<row, token, reach, sealed, up>>
    BY <2>1 DEF ledger, vars
  <2>6. /\ \A x \in Attempts : x # a => call'[x] = call[x]
        /\ call'[a].at = "ending" /\ call'[a].cost = call[a].cost /\ CallsOK'
    BY <1>0, <2>1, Moves DEF Stages
  <2>7. CallRow(a)'
    BY <1>0, <1>1, <2>5, <2>6 DEF CallRow, Fresh
  <2>8. ClaimRow(a)' /\ \A x \in Attempts : Sealed(x) => Sealed(x)'
    BY <1>0, <2>5, UnderWay DEF ClaimRow
  <2>9. JobTrue'
    BY <1>0, <2>4, JobKept DEF CallInv
  <2> QED
    BY <1>0, <2>3, <2>4, <2>5, <2>6, <2>7, <2>8, <2>9, ServingStep
<1>3. CASE ~Sealed(a)
  <2>1. MarkCostDispatch(a) /\ Go(a, "marked") /\ UNCHANGED <<hold, gone, stored, live>>
    BY <1>3 DEF DispatchCost, account
  <2>2. /\ UNCHANGED <<row, bill, fix, token, reach, sealed, retained, up>> /\ TypeOK'
        /\ \A x \in Attempts : x # a => cost'[x] = cost[x]
        /\ cost'[a].charged = cost[a].charged
    BY <1>0, <2>1, MarkCostDispatchType DEF MarkCostDispatch, Cost
  <2>3. OthersKept(a) /\ SameHold(a)
    BY <2>1, <2>2 DEF OthersKept, SameSession, SameHold
  <2>4. /\ (Called(a)' <=> Called(a)) /\ (Known(a)' <=> Known(a)) /\ (Settled(a)' <=> Settled(a))
        /\ (TrueCharge(a)' = TrueCharge(a)) /\ (Account!Exists(a)' <=> Account!Exists(a))
    BY <2>1, <2>2 DEF Called, Known, Settled, TrueCharge, Account!Exists
  <2>5. TrueRow(a)' /\ SentRow(a)'
    BY <1>0, <1>1, <2>1, <2>2, <2>4 DEF TrueRow, SentRow, MaybeTrue
  <2>6. Cap!CapTypeOK'
    BY <1>0, <2>1 DEF Cap!CapTypeOK, Cap!Settled, Cap!Exists
  <2>7. Books' /\ Teaches
    BY <1>0, <2>2, <2>3, <2>4, <2>5, <2>6, OneTaught DEF Books, SameHold
  <2>8. /\ \A x \in Attempts : x # a => call'[x] = call[x]
        /\ call'[a].at = "marked" /\ call'[a].cost = call[a].cost /\ CallsOK'
    BY <1>0, <2>1, Moves DEF Stages
  <2>9. CallRow(a)'
    BY <1>0, <1>1, <2>1, <2>2, <2>4, <2>8 DEF CallRow, Fresh
  <2>10. ClaimRow(a)' /\ \A x \in Attempts : Sealed(x) => Sealed(x)'
    BY <1>0, <2>2, UnderWay DEF ClaimRow
  <2>11. JobTrue'
    BY <1>0, <2>7, JobKept DEF CallInv
  <2> QED
    BY <1>0, <2>1, <2>2, <2>3, <2>7, <2>8, <2>9, <2>10, <2>11, ServingStep
<1> QED
  BY <1>2, <1>3

\* A step of an invocation that writes to the account alone.
LEMMA AccountTurn ==
  ASSUME CallInv, Serving, NEW a \in Attempts, UNCHANGED ledger, Books', Teaches, OthersKept(a),
         UNCHANGED <<gone, stored, live, job>>, call[a].at # "idle",
         CallsOK', \A x \in Attempts : x # a => call'[x] = call[x], CallRow(a)'
  PROVE  CallInv'
<1>1. ClaimRow(a) /\ up /\ live
  BY Before DEF Serving
<1>2. UNCHANGED <<row, token, sealed, up>>
  BY DEF ledger, vars
<1>3. row[a].state # "none"
  BY <1>1 DEF ClaimRow
<1>4. ClaimRow(a)' /\ \A x \in Attempts : Sealed(x) => Sealed(x)'
  BY <1>1, <1>2, <1>3, UnderWay
<1>5. JobTrue'
  BY JobKept DEF CallInv
<1> QED
  BY <1>1, <1>2, <1>4, <1>5, ServingStep

\* The hold is dispatched.
LEMMA DispatchSpendKeeps == ASSUME CallInv, NEW a \in Attempts, DispatchSpend(a) PROVE CallInv' /\ Teaches
<1>0. /\ Cap!CapTypeOK /\ TrueRow(a) /\ SentRow(a) /\ CallRow(a)
      /\ hold \in [Attempts -> Cap!Hold] /\ live /\ Books /\ CallsOK
      /\ call[a].at = "marked" /\ Serving /\ UNCHANGED ledger /\ UNCHANGED job
      /\ Cap!Dispatch(a) /\ Go(a, "ready")
  BY Before, AccountSteps DEF CallInv, DispatchSpend, At
<1>1. Fresh(a) /\ Account!Exists(a) /\ ~Called(a) /\ hold[a].actual = NoAmount /\ hold[a].seen = NoAmount
  BY <1>0 DEF CallRow, Fresh
<1>2. /\ \A x \in Attempts : x # a => SameHold(x)
      /\ hold'[a].state = (IF hold[a].state = "reserved" THEN "dispatched" ELSE hold[a].state)
      /\ hold'[a].actual = hold[a].actual /\ hold'[a].seen = hold[a].seen
      /\ hold'[a].ceiling = hold[a].ceiling /\ UNCHANGED <<gone, stored, live>>
  BY <1>0 DEF Cap!Dispatch, Cap!Hold, SameHold
<1>3. [Cap!CapNext]_<<hold, gone, stored, live>>
  BY <1>0 DEF Cap!CapNext
<1>4. /\ hold'[a].actual \in MaybeTrue(a) /\ hold'[a].seen \in MaybeTrue(a) /\ Account!Exists(a)'
      /\ hold'[a].state \notin {"none", "reserved"}
  BY <1>1, <1>2 DEF MaybeTrue, Account!Exists
<1>5. Books' /\ Teaches /\ OthersKept(a)
  BY <1>0, <1>1, <1>2, <1>3, <1>4, HoldKeeps
<1>6. /\ \A x \in Attempts : x # a => call'[x] = call[x]
      /\ call'[a].at = "ready" /\ call'[a].cost = call[a].cost /\ CallsOK'
  BY <1>0, Moves DEF Stages
<1>7. UNCHANGED <<row, bill, observed, cost, fix, audit, token, reach, sealed, retained, up>>
  BY <1>0 DEF ledger, vars
<1>8. (Called(a)' <=> Called(a)) /\ (Settled(a)' <=> Settled(a))
  BY <1>7 DEF Called, Settled
<1>9. CallRow(a)'
  BY <1>0, <1>1, <1>2, <1>4, <1>6, <1>7, <1>8 DEF CallRow, Fresh
<1> QED
  BY <1>0, <1>2, <1>5, <1>6, <1>9, AccountTurn

\* The charge is heard.
LEMMA HearCostKeeps == ASSUME CallInv, NEW a \in Attempts, HearCost(a) PROVE CallInv' /\ Teaches
<1>0. /\ Cap!CapTypeOK /\ TrueRow(a) /\ SentRow(a) /\ CallRow(a)
      /\ hold \in [Attempts -> Cap!Hold] /\ live /\ Books /\ CallsOK
      /\ call \in [Attempts -> [at : Stages, ended : BOOLEAN, aborted : BOOLEAN, cost : MaybeAmount]]
      /\ call[a].at \in {"waiting", "late"} /\ Serving /\ UNCHANGED ledger /\ UNCHANGED job
      /\ Cap!Record(a, ChargeOf[a]) /\ ChargeOf[a] \in Nat
      /\ call' = [call EXCEPT ![a].at = "heard", ![a].cost = ChargeOf[a]]
  BY Before, AccountSteps, ChargeFacts DEF CallInv, HearCost
<1>1. Called(a) /\ TrueCharge(a) = ChargeOf[a] /\ Account!Exists(a)
  BY <1>0, AccountReads DEF CallRow, TrueCharge, Cap!Record
<1>2. /\ \A x \in Attempts : x # a => SameHold(x)
      /\ hold'[a].state = hold[a].state /\ hold'[a].actual = hold[a].actual /\ hold'[a].seen = ChargeOf[a]
      /\ hold'[a].ceiling = hold[a].ceiling /\ UNCHANGED <<gone, stored, live>>
  BY <1>0 DEF Cap!Record, Cap!Hold, SameHold
<1>3. [Cap!CapNext]_<<hold, gone, stored, live>>
  BY <1>0 DEF Cap!CapNext
<1>4. /\ hold'[a].actual \in MaybeTrue(a) /\ hold'[a].seen \in MaybeTrue(a) /\ Account!Exists(a)'
  BY <1>0, <1>1, <1>2 DEF MaybeTrue, TrueRow, Account!Exists
<1>5. Books' /\ Teaches /\ OthersKept(a)
  BY <1>0, <1>1, <1>2, <1>3, <1>4, HoldKeeps
<1>6. /\ \A x \in Attempts : x # a => call'[x] = call[x]
      /\ call'[a].at = "heard" /\ call'[a].cost = ChargeOf[a] /\ CallsOK'
  BY ZenonT(60), <1>0 DEF CallsOK, Stages, MaybeAmount
<1>7. Called(a)' /\ ChargeOf[a] # NoAmount
  BY <1>0, <1>1, ChargeFacts DEF ledger, vars, Called
<1>8. CallRow(a)'
  BY <1>6, <1>7 DEF CallRow, Fresh
<1> QED
  BY <1>0, <1>2, <1>5, <1>6, <1>8, AccountTurn

\* A request without an answer leaves its hold open, as uncertain.
LEMMA GiveUpKeeps == ASSUME CallInv, NEW a \in Attempts, GiveUp(a) PROVE CallInv' /\ Teaches
<1>0. /\ Cap!CapTypeOK /\ TrueRow(a) /\ SentRow(a) /\ CallRow(a) /\ TypeOK
      /\ hold \in [Attempts -> Cap!Hold] /\ live /\ Books /\ CallsOK
      /\ call[a].at = "waiting" /\ Serving /\ UNCHANGED ledger /\ UNCHANGED job
      /\ Unresolved(a) /\ Go(a, IF call[a].aborted THEN "late" ELSE "ending")
  BY Before DEF CallInv, GiveUp, At
<1>1. Called(a)
  BY <1>0 DEF CallRow
<1>2. UNCHANGED <<row, bill, observed, cost, fix, audit, token, reach, sealed, retained, up>>
  BY <1>0 DEF ledger, vars
<1>3. Books' /\ Teaches /\ OthersKept(a) /\ UNCHANGED <<gone, stored, live>>
  <2>1. CASE Account!Unsettled(a)
    <3>1. Cap!MarkUncertain(a) /\ Account!Exists(a)
      BY <1>0, <2>1, AccountSteps DEF Unresolved, Account!Unsettled
    <3>2. /\ \A x \in Attempts : x # a => SameHold(x)
          /\ hold'[a].state = "uncertain" /\ hold'[a].actual = hold[a].actual /\ hold'[a].seen = hold[a].seen
          /\ hold'[a].ceiling = hold[a].ceiling /\ UNCHANGED <<gone, stored, live>>
      BY <1>0, <3>1 DEF Cap!MarkUncertain, Cap!Hold, SameHold
    <3>3. [Cap!CapNext]_<<hold, gone, stored, live>>
      BY <1>0, <3>1 DEF Cap!CapNext
    <3>4. hold'[a].actual \in MaybeTrue(a) /\ hold'[a].seen \in MaybeTrue(a) /\ Account!Exists(a)'
      BY <1>0, <3>2 DEF MaybeTrue, TrueRow, Account!Exists
    <3> QED
      BY <1>0, <3>1, <3>2, <3>3, <3>4, HoldKeeps
  <2>2. CASE ~Account!Unsettled(a)
    <3>1. UNCHANGED <<hold, gone, stored, live>>
      BY <1>0, <2>2 DEF Unresolved, account
    <3>2. TypeOK' /\ live' \in BOOLEAN
      BY <1>0, <1>2, <3>1 DEF TypeOK
    <3> QED
      BY <1>0, <1>2, <3>1, <3>2, Untouched DEF OthersKept
  <2> QED
    BY <2>1, <2>2
<1>4. /\ \A x \in Attempts : x # a => call'[x] = call[x]
      /\ call'[a].at \in {"late", "ending"} /\ call'[a].cost = call[a].cost /\ CallsOK'
  BY <1>0, Moves DEF Stages
<1>5. CallRow(a)'
  BY <1>0, <1>1, <1>2, <1>4 DEF CallRow, Fresh, Called
<1> QED
  BY <1>0, <1>3, <1>4, <1>5, AccountTurn

\* A late answer that never came.
LEMMA NoAnswerKeeps == ASSUME CallInv, NEW a \in Attempts, NoAnswer(a) PROVE CallInv' /\ Teaches
<1>0. /\ CallRow(a) /\ TypeOK /\ live /\ Books /\ CallsOK
      /\ call[a].at = "late" /\ Serving /\ UNCHANGED ledger /\ UNCHANGED <<hold, gone, stored, live, job>>
      /\ Go(a, "over")
  BY Before DEF CallInv, NoAnswer, At, account
<1>1. UNCHANGED <<row, bill, observed, cost, fix, audit, token, reach, sealed, retained, up>>
  BY <1>0 DEF ledger, vars
<1>2. Books' /\ Teaches /\ OthersKept(a)
  <2>1. TypeOK' /\ live' \in BOOLEAN
    BY <1>0, <1>1 DEF TypeOK
  <2> QED
    BY <1>0, <1>1, <2>1, Untouched DEF OthersKept
<1>3. /\ \A x \in Attempts : x # a => call'[x] = call[x]
      /\ call'[a].at = "over" /\ call'[a].cost = call[a].cost /\ CallsOK'
  BY <1>0, Moves DEF Stages
<1>4. CallRow(a)'
  BY <1>0, <1>1, <1>3 DEF CallRow, Fresh, Called
<1> QED
  BY <1>0, <1>2, <1>3, <1>4, AccountTurn

\* The charge that was heard settles the hold.
LEMMA SettleSpendKeeps == ASSUME CallInv, NEW a \in Attempts, SettleSpend(a) PROVE CallInv' /\ Teaches
<1>0. /\ CallRow(a) /\ TypeOK /\ live /\ Books /\ CallsOK
      /\ call[a].at = "noted" /\ Serving /\ UNCHANGED ledger /\ UNCHANGED job
      /\ SettleAccount(a, call[a].cost) /\ Go(a, "ending")
  BY Before DEF CallInv, SettleSpend, At
<1>1. call[a].cost \in Nat /\ call[a].cost = TrueCharge(a)
  BY <1>0, ChargeFacts DEF CallRow, TrueCharge
<1>2. Books' /\ Teaches /\ OthersKept(a) /\ UNCHANGED <<gone, stored, live>>
  BY <1>0, <1>1, SettleAccountKeeps
<1>3. /\ \A x \in Attempts : x # a => call'[x] = call[x]
      /\ call'[a].at = "ending" /\ call'[a].cost = call[a].cost /\ CallsOK'
  BY <1>0, Moves DEF Stages
<1>4. CallRow(a)'
  BY <1>0, <1>3 DEF CallRow, Fresh, Called, ledger, vars
<1> QED
  BY <1>0, <1>2, <1>3, <1>4, AccountTurn

\* A step of a serving host that writes the books of an attempt whose request was
\* sent or whose row is settled.
LEMMA BookTurn ==
  ASSUME CallInv, Serving, NEW a \in Attempts, ~Fresh(a), Books', Teaches, OthersKept(a), JobTrue',
         UNCHANGED <<row, reach, sealed, token, gone, stored, live>>, up',
         hold'[a].state = hold[a].state \/ Account!Exists(a)',
         call' = call \/ (call[a].at = "heard" /\ Go(a, "noted"))
  PROVE  CallInv'
<1>0. CallRow(a) /\ ClaimRow(a) /\ up /\ live /\ CallsOK
  BY Before DEF CallInv
<1>1. (Called(a)' <=> Called(a)) /\ (Account!Exists(a)' <=> Account!Exists(a))
  BY DEF Teaches
<1>2. ~Account!Exists(a) => hold'[a].state = hold[a].state
  BY <1>1
<1>3. /\ \A x \in Attempts : x # a => call'[x] = call[x]
      /\ call'[a].cost = call[a].cost /\ call'[a].aborted = call[a].aborted /\ CallsOK'
      /\ call'[a].at = call[a].at \/ (call[a].at = "heard" /\ call'[a].at = "noted")
  <2>1. CASE call' = call
    BY <1>0, <2>1 DEF CallsOK
  <2>2. CASE call[a].at = "heard" /\ Go(a, "noted")
    BY <1>0, <2>2, Moves DEF Stages
  <2> QED
    BY <2>1, <2>2
<1>4. CallRow(a)'
  <2>1. call'[a].at = "begun" => hold'[a].state = "none"
    BY <1>0, <1>2, <1>3 DEF CallRow, Account!Exists
  <2>2. ~Fresh(a)' /\ call'[a].at \notin {"idle", "reserved", "marked", "ready"}
    BY <1>3 DEF Fresh
  <2> QED
    BY <1>0, <1>1, <1>3, <2>1, <2>2 DEF CallRow
<1>5. call[a].at # "idle"
  BY DEF Fresh
<1>6. ClaimRow(a)' /\ \A x \in Attempts : Sealed(x) => Sealed(x)'
  BY <1>0, <1>5, UnderWay DEF ClaimRow
<1> QED
  BY <1>0, <1>3, <1>4, <1>6, ServingStep

\* The generation id arrives.
LEMMA HearNameKeeps == ASSUME CallInv, NEW a \in Attempts, HearName(a) PROVE CallInv' /\ Teaches
<1>0. /\ CallRow(a) /\ TypeOK /\ live /\ Books /\ Serving
      /\ call[a].at \in {"waiting", "late"} /\ ~Sealed(a) /\ UNCHANGED <<hold, gone, stored, live, call, job>>
  BY Before DEF CallInv, HearName, account
<1>1. PICK g \in Generations : ObserveCost(a, g, NoAmount)
  BY DEF HearName
<1>2. g \in Generations \cup {NoGeneration} /\ NoAmount \in MaybeTrue(a) /\ NoAmount \in MaybeAmount
  BY DEF MaybeTrue, MaybeAmount
<1>3. up'
  BY <1>0, <1>1, <1>2, ObserveDoes
<1>4. /\ Books' /\ Teaches /\ OthersKept(a)
      /\ UNCHANGED <<row, reach, sealed, token, up>>
      /\ hold'[a].state = hold[a].state \/ Account!Exists(a)'
  BY <1>0, <1>1, <1>2, <1>3, ObserveKeeps
<1>5. JobTrue'
  BY <1>0, <1>4, JobKept DEF CallInv
<1>6. ~Fresh(a)
  BY <1>0 DEF Fresh
<1> QED
  BY <1>0, <1>3, <1>4, <1>5, <1>6, BookTurn

\* The charge that was heard goes on the row.
LEMMA NoteCostKeeps == ASSUME CallInv, NEW a \in Attempts, NoteCost(a) PROVE CallInv' /\ Teaches
<1>0. /\ CallRow(a) /\ TypeOK /\ live /\ Books /\ Serving
      /\ call[a].at = "heard" /\ up' /\ HandOver(a) /\ Go(a, "noted") /\ UNCHANGED job
      /\ ObserveCost(a, cost[a].gen, call[a].cost)
  BY Before DEF CallInv, NoteCost, At
<1>1. cost[a].gen \in Generations \cup {NoGeneration} /\ call[a].cost \in MaybeTrue(a)
  BY <1>0 DEF TypeOK, Cost, CallRow, MaybeTrue, TrueCharge
<1>2. live'
  BY <1>0 DEF HandOver, Account!Retain, account
<1>3. /\ Books' /\ Teaches /\ OthersKept(a)
      /\ UNCHANGED <<row, reach, sealed, token, up, gone, stored>>
      /\ hold'[a].state = hold[a].state \/ Account!Exists(a)'
  BY <1>0, <1>1, ObserveKeeps
<1>4. JobTrue'
  BY <1>0, <1>3, JobKept DEF CallInv
<1>5. ~Fresh(a)
  BY <1>0 DEF Fresh
<1> QED
  BY <1>0, <1>2, <1>3, <1>4, <1>5, BookTurn

-----------------------------------------------------------------------------
(* The receipt job, step by step *)

\* What holds of the attempt the job is at.
LEMMA JobAt ==
  ASSUME CallInv, NEW a \in Attempts, job.on = a
  PROVE  /\ a # NoAttempt /\ Settled(a) /\ ~Fresh(a) /\ job.saved \in MaybeTrue(a)
         /\ job.at # "asking" => /\ job.kind \in {"receipt", "estimate"} /\ job.micro \in Nat
                                 /\ job.kind = "receipt" => job.micro = TrueCharge(a)
<1>1. a # NoAttempt
  BY CallAssumption
<1> QED
  BY <1>1, Before DEF CallInv, JobTrue, CallRow

\* A step of the job that touches neither the books nor the invocations.
LEMMA JobMoves ==
  ASSUME CallInv, Serving, UNCHANGED <<ledger, account, call>>, JobTrue'
  PROVE  CallInv' /\ Teaches
<1>0. /\ UNCHANGED <<row, bill, observed, cost, fix, audit, token, reach, sealed, retained, up>>
      /\ UNCHANGED <<hold, gone, stored, live>> /\ up /\ live /\ Books /\ TypeOK
  BY DEF ledger, vars, account, Serving, CallInv, Books
<1>1. TypeOK' /\ live' \in BOOLEAN
  BY <1>0 DEF TypeOK
<1>2. Books' /\ Teaches /\ \A x \in Attempts : SameSession(x) /\ SameHold(x)
  BY <1>0, <1>1, Untouched
<1>3. CallRows'
  <2> SUFFICES ASSUME NEW x \in Attempts PROVE CallRow(x)' /\ ClaimRow(x)'
    BY DEF CallRows
  <2>1. Sealed(x) => Sealed(x)'
    BY <1>0 DEF Sealed
  <2> QED
    BY <1>0, <1>2, <2>1, CallKept DEF CallInv, CallRows
<1>4. CallsOK' /\ Quiet'
  BY <1>0 DEF CallInv, CallsOK, Quiet
<1> QED
  BY <1>2, <1>3, <1>4 DEF CallInv

\* The job that is idle carries nothing.
LEMMA JobIdle == ASSUME job' = NoJob PROVE JobTrue'
BY DEF JobTrue, NoJob, Jobs, MaybeAmount

\* What is on record of an attempt is absent or true.
LEMMA PickKeeps == ASSUME CallInv, NEW a \in Attempts, Pick(a) PROVE CallInv' /\ Teaches
<1>0. /\ TrueRow(a) /\ TypeOK /\ Serving /\ Settled(a) /\ UNCHANGED <<ledger, account, call>>
      /\ job' = [on |-> a, at |-> IF KnownCost(a) = NoAmount THEN "asking" ELSE "saving",
                 kind |-> IF KnownCost(a) = NoAmount THEN "none" ELSE "receipt",
                 micro |-> KnownCost(a), saved |-> SavedCost(a)]
  BY Before DEF Pick, Pending
<1>1. SavedCost(a) \in MaybeTrue(a)
  BY <1>0 DEF SavedCost, TrueRow, MaybeTrue
<1>2. KnownCost(a) \in MaybeTrue(a)
  <2>1. CASE SavedCost(a) # NoAmount
    BY <1>1, <2>1 DEF KnownCost
  <2>2. CASE SavedCost(a) = NoAmount /\ cost[a].charged # NoAmount
    BY <1>0, <2>2 DEF KnownCost, TrueRow
  <2>3. CASE SavedCost(a) = NoAmount /\ cost[a].charged = NoAmount
    BY <1>0, <2>3 DEF KnownCost, TrueRow, MaybeTrue, Known
  <2> QED
    BY <2>1, <2>2, <2>3
<1>3. UNCHANGED <<row, reach>>
  BY <1>0 DEF ledger, vars
<1>4. (Settled(a)' <=> Settled(a)) /\ (TrueCharge(a)' = TrueCharge(a)) /\ (MaybeTrue(a)' = MaybeTrue(a))
  BY <1>3 DEF Settled, TrueCharge, Called, MaybeTrue
<1>5. /\ job'.on = a /\ job'.saved \in MaybeTrue(a)
      /\ job'.at \in {"asking", "saving"}
      /\ job'.at # "asking" => job'.kind = "receipt" /\ job'.micro = TrueCharge(a)
  BY <1>0, <1>1, <1>2 DEF MaybeTrue
<1>6. JobTrue'
  BY <1>0, <1>1, <1>2, <1>4, <1>5, ChargeFacts DEF JobTrue, Jobs, MaybeTrue, MaybeAmount
<1> QED
  BY <1>0, <1>6, JobMoves

\* The provider's answer is true.
LEMMA AnswerKeeps == ASSUME CallInv, NEW a \in Attempts, Answer(a) PROVE CallInv' /\ Teaches
<1>0. /\ Serving /\ job.on = a /\ Called(a) /\ UNCHANGED <<ledger, account, call>>
      /\ job' = [job EXCEPT !.at = "saving", !.kind = "receipt", !.micro = ChargeOf[a]]
  BY DEF Answer
<1>1. UNCHANGED <<row, reach>>
  BY <1>0 DEF ledger, vars
<1>2. (Settled(a)' <=> Settled(a)) /\ (TrueCharge(a)' = TrueCharge(a)) /\ (MaybeTrue(a)' = MaybeTrue(a))
  BY <1>1 DEF Settled, TrueCharge, Called, MaybeTrue
<1>3. TrueCharge(a) = ChargeOf[a]
  BY <1>0 DEF TrueCharge
<1>4. JobTrue'
  BY <1>0, <1>2, <1>3, JobAt, ChargeFacts DEF JobTrue, Jobs, CallInv, MaybeAmount
<1> QED
  BY <1>0, <1>4, JobMoves

\* An estimate is not taken for a receipt.
LEMMA UnansweredKeeps == ASSUME CallInv, NEW a \in Attempts, Unanswered(a) PROVE CallInv' /\ Teaches
<1>0. /\ Serving /\ job.on = a /\ UNCHANGED <<ledger, account, call>> /\ TypeOK
      /\ job' = IF call[a].at # "over" THEN NoJob
                ELSE [job EXCEPT !.at = "saving", !.kind = "estimate", !.micro = Larger(Estimate, fix[a].micro)]
  BY Before DEF Unanswered
<1>1. UNCHANGED <<row, reach>>
  BY <1>0 DEF ledger, vars
<1>2. (Settled(a)' <=> Settled(a)) /\ (TrueCharge(a)' = TrueCharge(a)) /\ (MaybeTrue(a)' = MaybeTrue(a))
  BY <1>1 DEF Settled, TrueCharge, Called, MaybeTrue
<1>3. Larger(Estimate, fix[a].micro) \in Nat
  BY <1>0, CallAssumption, LargerFacts DEF TypeOK, Fix
<1>4. JobTrue'
  <2>1. CASE job' = NoJob
    BY <2>1, JobIdle
  <2>2. CASE job' = [job EXCEPT !.at = "saving", !.kind = "estimate", !.micro = Larger(Estimate, fix[a].micro)]
    <3>1. /\ job \in Jobs /\ Settled(a) /\ job.saved \in MaybeTrue(a) /\ a # NoAttempt
      BY <1>0, JobAt DEF CallInv, JobTrue
    <3>2. /\ job'.on = a /\ job'.at = "saving" /\ job'.kind = "estimate" /\ job'.micro \in Nat
          /\ job'.saved = job.saved
      BY <1>0, <1>3, <2>2, <3>1 DEF Jobs
    <3>3. job' \in Jobs
      BY <1>3, <2>2, <3>1 DEF Jobs, MaybeAmount
    <3> QED
      BY <1>2, <3>1, <3>2, <3>3 DEF JobTrue
  <2> QED
    BY <1>0, <2>1, <2>2
<1> QED
  BY <1>0, <1>4, JobMoves

\* The books of an attempt the job is at, with the job where it goes next.
LEMMA JobNext ==
  ASSUME CallInv, NEW a \in Attempts, job.on = a, Teaches,
         \/ job' = NoJob
         \/ job.at # "asking" /\ \E s \in {"posting", "spending"} : job' = [job EXCEPT !.at = s]
  PROVE  JobTrue'
<1>1. CASE job' = NoJob
  BY <1>1, JobIdle
<1>2. CASE job.at # "asking" /\ \E s \in {"posting", "spending"} : job' = [job EXCEPT !.at = s]
  <2>1. PICK s \in {"posting", "spending"} : job' = [job EXCEPT !.at = s]
    BY <1>2
  <2>2. job \in Jobs
    BY DEF CallInv, JobTrue
  <2>3. /\ job' \in Jobs /\ job'.at = s /\ job'.on = a /\ job'.kind = job.kind /\ job'.micro = job.micro
        /\ job'.saved = job.saved
    BY <2>1, <2>2 DEF Jobs
  <2>4. Settled(a)' /\ (TrueCharge(a)' = TrueCharge(a)) /\ (MaybeTrue(a)' = MaybeTrue(a))
    BY JobAt DEF Teaches, TrueCharge, MaybeTrue
  <2>5. /\ job.saved \in MaybeTrue(a) /\ job.kind \in {"receipt", "estimate"} /\ job.micro \in Nat
        /\ job.kind = "receipt" => job.micro = TrueCharge(a)
    BY <1>2, JobAt
  <2>6. Jobs' = Jobs
    BY DEF Jobs
  <2> QED
    BY <2>3, <2>4, <2>5, <2>6 DEF JobTrue
<1> QED
  BY <1>1, <1>2

\* The account's evidence goes on the row.
LEMMA SaveEvidenceKeeps == ASSUME CallInv, NEW a \in Attempts, SaveEvidence(a) PROVE CallInv' /\ Teaches
<1>0. /\ TypeOK /\ live /\ Books /\ Serving /\ ~Fresh(a) /\ job.saved \in MaybeTrue(a)
      /\ job.on = a /\ job.at = "saving" /\ UNCHANGED call
      /\ job' = IF Sealed(a) /\ job.saved # NoAmount THEN NoJob ELSE [job EXCEPT !.at = "posting"]
  BY Before, JobAt DEF CallInv, SaveEvidence
<1>1. job' = NoJob \/ (job.at # "asking" /\ \E s \in {"posting", "spending"} : job' = [job EXCEPT !.at = s])
  BY <1>0
<1>2. CASE job.saved = NoAmount
  <2>1. UNCHANGED <<ledger, account>>
    BY <1>2 DEF SaveEvidence
  <2>2. /\ UNCHANGED <<row, bill, observed, cost, fix, audit, token, reach, sealed, retained, up>>
        /\ UNCHANGED <<hold, gone, stored, live>>
    BY <2>1 DEF ledger, vars, account
  <2>3. TypeOK' /\ live' \in BOOLEAN
    BY <1>0, <2>2 DEF TypeOK
  <2>4. Teaches
    BY <1>0, <2>2, <2>3, Untouched
  <2>5. JobTrue'
    BY <1>0, <1>1, <2>4, JobNext
  <2> QED
    BY <1>0, <2>1, <2>5, JobMoves
<1>3. CASE job.saved # NoAmount
  <2>1. ObserveCost(a, cost[a].gen, job.saved) /\ up' /\ HandOver(a)
    BY <1>3 DEF SaveEvidence
  <2>2. cost[a].gen \in Generations \cup {NoGeneration}
    BY <1>0 DEF TypeOK, Cost
  <2>3. /\ Books' /\ Teaches /\ OthersKept(a)
        /\ UNCHANGED <<row, reach, sealed, token, up, gone, stored>>
        /\ hold'[a].state = hold[a].state \/ Account!Exists(a)'
    BY <1>0, <2>1, <2>2, ObserveKeeps
  <2>4. UNCHANGED live
    BY <2>1 DEF HandOver, Account!Retain, account
  <2>5. JobTrue'
    BY <1>0, <1>1, <2>3, JobNext
  <2> QED
    BY <1>0, <2>1, <2>3, <2>4, <2>5, BookTurn
<1> QED
  BY <1>2, <1>3

\* Evidence is posted, or refused.
LEMMA PostEvidenceKeeps == ASSUME CallInv, NEW a \in Attempts, PostEvidence(a) PROVE CallInv' /\ Teaches
<1>0. /\ TypeOK /\ live /\ Books /\ Serving /\ ~Fresh(a)
      /\ job.kind \in {"receipt", "estimate"} /\ job.micro \in Nat
      /\ job.kind = "receipt" => job.micro = TrueCharge(a)
      /\ job.on = a /\ job.at = "posting" /\ UNCHANGED call
      /\ job' = NoJob \/ job' = [job EXCEPT !.at = "spending"]
  BY Before, JobAt DEF CallInv, PostEvidence
<1>1. job' = NoJob \/ (job.at # "asking" /\ \E s \in {"posting", "spending"} : job' = [job EXCEPT !.at = s])
  BY <1>0
<1>2. CASE ~CostAccepted(a, job.kind, job.micro)
  <2>1. UNCHANGED <<ledger, account>>
    BY <1>2 DEF PostEvidence
  <2>2. /\ UNCHANGED <<row, bill, observed, cost, fix, audit, token, reach, sealed, retained, up>>
        /\ UNCHANGED <<hold, gone, stored, live>>
    BY <2>1 DEF ledger, vars, account
  <2>3. TypeOK' /\ live' \in BOOLEAN
    BY <1>0, <2>2 DEF TypeOK
  <2>4. Teaches
    BY <1>0, <2>2, <2>3, Untouched
  <2>5. JobTrue'
    BY <1>0, <1>1, <2>4, JobNext
  <2> QED
    BY <1>0, <2>1, <2>5, JobMoves
<1>3. CASE CostAccepted(a, job.kind, job.micro)
  <2>1. ReconcileCost(a, job.kind, job.micro) /\ HandOver(a)
    BY <1>3 DEF PostEvidence
  <2>2. /\ Books' /\ Teaches /\ OthersKept(a)
        /\ UNCHANGED <<row, reach, token, sealed, up, gone, stored, live>>
        /\ hold'[a].state = hold[a].state \/ Account!Exists(a)'
    BY <1>0, <2>1, ReconcileKeeps
  <2>3. JobTrue'
    BY <1>0, <1>1, <2>2, JobNext
  <2>4. up'
    BY <1>0, <2>2 DEF Serving
  <2> QED
    BY <1>0, <2>2, <2>3, <2>4, BookTurn
<1> QED
  BY <1>2, <1>3

\* The hold is settled by a receipt, and the job leaves the row.
LEMMA AcknowledgeKeeps == ASSUME CallInv, NEW a \in Attempts, Acknowledge(a) PROVE CallInv' /\ Teaches
<1>0. /\ TypeOK /\ live /\ up /\ Books /\ Serving /\ ~Fresh(a)
      /\ job.kind = "receipt" => job.micro \in Nat /\ job.micro = TrueCharge(a)
      /\ job.on = a /\ job.at = "spending" /\ UNCHANGED call /\ UNCHANGED ledger /\ job' = NoJob
  BY Before, JobAt DEF CallInv, Acknowledge
<1>1. JobTrue'
  BY <1>0, JobIdle
<1>2. CASE job.kind # "receipt"
  <2>1. UNCHANGED account
    BY <1>2 DEF Acknowledge
  <2> QED
    BY <1>0, <1>1, <2>1, JobMoves
<1>3. CASE job.kind = "receipt"
  <2>1. SettleAccount(a, job.micro)
    BY <1>3 DEF Acknowledge
  <2>2. /\ Books' /\ Teaches /\ OthersKept(a) /\ UNCHANGED <<gone, stored, live>>
        /\ (Account!Exists(a)' <=> Account!Exists(a))
    BY <1>0, <1>3, <2>1, SettleAccountKeeps
  <2>3. UNCHANGED <<row, token, reach, sealed, up>>
    BY <1>0 DEF ledger, vars
  <2>4. hold'[a].state = hold[a].state \/ Account!Exists(a)'
    <3>1. CASE Account!Exists(a)
      BY <2>2, <3>1
    <3>2. CASE ~Account!Exists(a)
      BY <2>1, <3>2 DEF SettleAccount, account
    <3> QED
      BY <3>1, <3>2
  <2> QED
    BY <1>0, <1>1, <2>2, <2>3, <2>4, BookTurn
<1> QED
  BY <1>2, <1>3

-----------------------------------------------------------------------------
(* Retirement, death and startup *)

\* The fence closes over a session.
LEMMA SealKeeps == ASSUME CallInv, NEW s \in Sessions, SealBilling(s) PROVE CallInv' /\ Teaches
<1>1. /\ UNCHANGED <<row, bill, observed, cost, fix, audit, token, reach, retained, up>>
      /\ sealed' = sealed \cup {s} /\ UNCHANGED <<hold, gone, stored, live, call, job>>
  BY DEF SealBilling, Seal, durable, account
<1>2. TypeOK /\ Books /\ CallRows /\ CallsOK /\ Quiet /\ JobTrue /\ live \in BOOLEAN
  BY DEF CallInv, Books, Cap!CapTypeOK
<1>3. TypeOK' /\ live' \in BOOLEAN
  BY <1>1, <1>2 DEF TypeOK
<1>4. Books' /\ Teaches /\ \A x \in Attempts : SameSession(x) /\ SameHold(x)
  BY <1>1, <1>2, <1>3, Untouched
<1>5. ASSUME NEW x \in Attempts PROVE CallRow(x)' /\ ClaimRow(x)'
  <2>1. Sealed(x) => Sealed(x)'
    BY <1>1 DEF Sealed
  <2> QED
    BY <1>1, <1>2, <1>4, <2>1, CallKept DEF CallRows
<1>6. CallsOK' /\ Quiet'
  BY <1>1, <1>2 DEF CallsOK, Quiet
<1>7. JobTrue'
  BY <1>1, <1>2, <1>4, JobKept
<1> QED
  BY <1>4, <1>5, <1>6, <1>7 DEF CallInv, CallRows

\* What a death leaves of the books: all of them, but for a charge it cut short.
LEMMA DeathLeaves ==
  ASSUME CallInv, Die
  PROVE  /\ Books' /\ Teaches /\ ~up' /\ ~live' /\ UNCHANGED <<row, gone, stored>>
         /\ \A x \in Attempts : token'[x] = "none" /\ (row[x].state = "none" => SameSession(x) /\ SameHold(x))
<1>0. /\ TypeOK /\ Books /\ CallRows /\ Quiet /\ JobTrue
      /\ UNCHANGED <<hold, gone, stored>> /\ live' = FALSE
  BY DEF CallInv, Books, Die, Account!Stop
<1>1. CASE Crash
  <2>1. /\ UNCHANGED <<row, bill, observed, cost, fix, audit, reach, sealed, retained>>
        /\ up' = FALSE /\ token' = [a \in Attempts |-> "none"]
    BY <1>1 DEF Crash, durable
  <2>2. TypeOK' /\ live' \in BOOLEAN
    BY <1>0, <2>1 DEF TypeOK
  <2>3. Books' /\ Teaches /\ \A x \in Attempts : SameSession(x) /\ SameHold(x)
    BY <1>0, <2>1, <2>2, Untouched
  <2> QED
    BY <1>0, <2>1, <2>3
<1>2. ASSUME NEW a \in Attempts, NEW c \in MaybeTrue(a), live, ~Sealed(a), ~up', ObserveCost(a, cost[a].gen, c)
      PROVE  /\ Books' /\ Teaches /\ ~up' /\ ~live' /\ UNCHANGED <<row, gone, stored>>
             /\ \A x \in Attempts : token'[x] = "none" /\ (row[x].state = "none" => SameSession(x) /\ SameHold(x))
  <2>1. cost[a].gen \in Generations \cup {NoGeneration}
    BY <1>0 DEF TypeOK, Cost
  <2>2. /\ Books' /\ Teaches /\ OthersKept(a) /\ UNCHANGED row
        /\ row[a].state \in {"dispatched", "settled"}
    BY <1>0, <1>2, <2>1, ObserveKeeps
  <2>3. \A x \in Attempts : token'[x] = "none"
    BY <1>2 DEF ObserveCost
  <2> QED
    BY <1>0, <1>2, <2>2, <2>3 DEF OthersKept
<1>3. ASSUME NEW a \in Attempts, call[a].at = "heard", ~Sealed(a), ObserveCost(a, cost[a].gen, call[a].cost), ~up'
      PROVE  call[a].cost \in MaybeTrue(a) /\ live
  BY <1>0, <1>3 DEF Quiet, CallRows, CallRow, MaybeTrue, TrueCharge
<1>4. ASSUME job.at = "saving", ~Sealed(job.on), ObserveCost(job.on, cost[job.on].gen, job.saved), ~up'
      PROVE  job.on \in Attempts /\ job.saved \in MaybeTrue(job.on) /\ live
  <2>1. job.on \in Attempts
    BY <1>4, CallAssumption DEF ObserveCost
  <2>2. job.on # NoAttempt
    BY <2>1, CallAssumption
  <2>3. job # NoJob
    BY <1>4 DEF NoJob
  <2> QED
    BY <1>0, <2>1, <2>2, <2>3 DEF JobTrue, Quiet
<1> QED
  BY <1>1, <1>2, <1>3, <1>4 DEF Die

\* The process dies.
LEMMA DieKeeps == ASSUME CallInv, Die PROVE CallInv' /\ Teaches
<1>0. /\ CallRows /\ CallsOK /\ Quiet
      /\ Books' /\ Teaches /\ ~up' /\ ~live' /\ UNCHANGED <<row, gone, stored>>
      /\ \A x \in Attempts : token'[x] = "none" /\ (row[x].state = "none" => SameSession(x) /\ SameHold(x))
  BY DeathLeaves DEF CallInv
<1>1. /\ job' = NoJob
      /\ call' = [a \in Attempts |-> IF row[a].state = "none" THEN call[a]
                                     ELSE [call[a] EXCEPT !.at = "over", !.ended = TRUE, !.cost = NoAmount]]
  BY DEF Die
<1>2. ASSUME NEW x \in Attempts, row[x].state = "none"
      PROVE  call'[x] = call[x] /\ call'[x].at = "idle" /\ call'[x] = NewCall
  BY <1>0, <1>1, <1>2 DEF CallRows, CallRow, ClaimRow
<1>3. ASSUME NEW x \in Attempts, row[x].state # "none"
      PROVE  call'[x].at = "over" /\ call'[x].cost = NoAmount
  BY <1>0, <1>1, <1>3 DEF CallsOK
<1>4. CallsOK'
  BY ZenonT(60), <1>0, <1>1 DEF CallsOK, Stages, MaybeAmount
<1>5. ASSUME NEW x \in Attempts PROVE CallRow(x)' /\ ClaimRow(x)'
  <2>1. CASE row[x].state = "none"
    <3>1. CallRow(x) /\ ClaimRow(x) /\ SameSession(x) /\ SameHold(x)
      BY <1>0, <2>1 DEF CallRows
    <3>2. CallRow(x)'
      BY <1>2, <2>1, <3>1 DEF CallRow, Fresh, SameSession, SameHold, Called, Settled, Account!Exists
    <3>3. ClaimRow(x)'
      BY <1>0, <1>2, <2>1 DEF ClaimRow
    <3> QED
      BY <3>2, <3>3
  <2>2. CASE row[x].state # "none"
    BY <1>0, <1>3, <2>2 DEF CallRow, ClaimRow, Fresh
  <2> QED
    BY <2>1, <2>2
<1>6. Quiet'
  BY <1>0, <1>1, <1>2, <1>3 DEF Quiet, NoJob
<1>7. JobTrue'
  BY <1>1, JobIdle
<1> QED
  BY <1>0, <1>4, <1>5, <1>6, <1>7 DEF CallInv, CallRows

\* A row startup settles as paid carries the charge on record, one it settles as
\* free was never sent.
LEMMA RecoveredTrue ==
  ASSUME Books, NEW x \in Attempts, x \in Recoverable, Recover
  PROVE  /\ row'[x].state = "settled" /\ ~Known(x)
         /\ bill'[x].outcome # "uncertain" => bill'[x].micro = TrueCharge(x)
<1>0. /\ TypeOK /\ TrueRow(x) /\ SentRow(x) /\ row \in [Attempts -> Row] /\ bill \in [Attempts -> Bill]
  BY DEF Books, BookRows, TypeOK
<1>1. row'[x] = [row[x] EXCEPT !.state = "settled"] /\ bill'[x] = RecoveredBill(x)
  BY DEF Recover
<1>2. row'[x].state = "settled" /\ ~Settled(x) /\ row[x].state # "settled"
  BY <1>0, <1>1 DEF Recoverable, Open, Settled, Row
<1>3. /\ bill'[x].outcome # "uncertain" => ~Liable(x) \/ Receipted(x)
      /\ bill'[x].micro = RecoveredMicro(x)
  BY <1>0, <1>1 DEF RecoveredBill, Bill
<1>4. ~Liable(x) => TrueCharge(x) = 0
  BY <1>0, <1>2 DEF SentRow, Liable, TrueCharge
<1>5. Receipted(x) => cost[x].charged = TrueCharge(x)
  BY <1>0 DEF Receipted, TrueRow, MaybeTrue
<1> QED
  BY <1>2, <1>3, <1>4, <1>5 DEF Known, RecoveredMicro

\* Startup goes through the rows.
LEMMA RecoverLedgerKeeps == ASSUME CallInv, RecoverLedger PROVE CallInv' /\ Teaches
<1>0. /\ TypeOK /\ Cap!CapTypeOK /\ Books /\ CallRows /\ CallsOK /\ Quiet /\ JobTrue
      /\ Recover /\ UNCHANGED <<hold, gone, stored, live, call, job>>
  BY DEF CallInv, Books, RecoverLedger, account
<1>1. /\ ~up /\ up' /\ ~live /\ UNCHANGED <<observed, cost, fix, audit, token, reach, sealed, retained>>
      /\ \A x \in Attempts : x \notin Recoverable => row'[x] = row[x] /\ bill'[x] = bill[x]
  BY <1>0 DEF Recover, Quiet
<1>2. TypeOK'
  BY <1>0, RecoverType
<1>3. Cap!CapTypeOK'
  BY <1>0 DEF Cap!CapTypeOK, Cap!Settled, Cap!Exists
<1>4. ASSUME NEW x \in Attempts
      PROVE  /\ TrueRow(x)' /\ SentRow(x)' /\ (Called(x)' <=> Called(x)) /\ hold'[x] = hold[x]
             /\ (Account!Exists(x)' <=> Account!Exists(x))
             /\ (Known(x) => Known(x)') /\ (Settled(x) => Settled(x)')
  <2>1. TrueRow(x) /\ SentRow(x)
    BY <1>0 DEF Books, BookRows
  <2>2. /\ (Called(x)' <=> Called(x)) /\ (Account!Exists(x)' <=> Account!Exists(x)) /\ hold'[x] = hold[x]
        /\ (TrueCharge(x)' = TrueCharge(x))
    BY <1>0, <1>1 DEF Called, Account!Exists, TrueCharge
  <2>3. CASE x \notin Recoverable
    <3>1. SameSession(x) /\ SameHold(x)
      BY <1>0, <1>1, <2>3 DEF SameSession, SameHold
    <3> QED
      BY <2>1, <2>2, <3>1, BooksKept
  <2>4. CASE x \in Recoverable
    <3>1. /\ row'[x].state = "settled" /\ ~Known(x)
          /\ bill'[x].outcome # "uncertain" => bill'[x].micro = TrueCharge(x)
      BY <1>0, <2>4, RecoveredTrue
    <3>2. ~Settled(x) /\ fix[x].kind = "none" /\ Settled(x)'
      BY <2>1, <2>4, <3>1 DEF Recoverable, Open, Settled, TrueRow
    <3>3. Known(x)' => bill'[x].micro = TrueCharge(x)
      BY <1>1, <3>1, <3>2 DEF Known
    <3>4. TrueRow(x)'
      BY <1>0, <1>1, <2>1, <2>2, <3>2, <3>3 DEF TrueRow, MaybeTrue
    <3>5. SentRow(x)'
      BY <1>0, <1>1, <2>1, <2>2, <3>1 DEF SentRow
    <3> QED
      BY <2>2, <3>1, <3>2, <3>4, <3>5
  <2> QED
    BY <2>3, <2>4
<1>5. Books'
  BY <1>2, <1>3, <1>4 DEF Books, BookRows
<1>6. Teaches
  BY <1>4 DEF Teaches
<1>7. ASSUME NEW x \in Attempts PROVE CallRow(x)' /\ ClaimRow(x)'
  <2>1. CallRow(x) /\ ClaimRow(x) /\ (call[x].at = "over" \/ (call[x].at = "idle" /\ row[x].state = "none"))
    BY <1>0, <1>1 DEF CallRows, Quiet
  <2>2. CallRow(x)'
    <3>1. CASE call[x].at = "over"
      BY <1>0, <1>4, <2>1, <3>1 DEF CallRow, Fresh
    <3>2. CASE call[x].at = "idle" /\ row[x].state = "none"
      <4>1. SameSession(x) /\ SameHold(x)
        BY <1>0, <1>1, <3>2 DEF Recoverable, Open, SameSession, SameHold
      <4> QED
        BY <1>0, <2>1, <4>1 DEF CallRow, Fresh, SameSession, SameHold, Called, Settled, Account!Exists
    <3> QED
      BY <2>1, <3>1, <3>2
  <2>3. ClaimRow(x)'
    <3>1. CASE x \notin Recoverable
      <4>1. row'[x] = row[x] /\ token'[x] = token[x] /\ (Sealed(x)' <=> Sealed(x))
        BY <1>1, <3>1 DEF Sealed
      <4>2. Sealed(x) \/ row[x].state \notin {"admitted", "claimed"}
        BY <3>1 DEF Recoverable, Open
      <4> QED
        BY <1>0, <2>1, <4>1, <4>2 DEF ClaimRow
    <3>2. CASE x \in Recoverable
      <4>1. row'[x].state = "settled"
        BY <1>0, <3>2, RecoveredTrue
      <4> QED
        BY <4>1 DEF ClaimRow
    <3> QED
      BY <3>1, <3>2
  <2> QED
    BY <2>2, <2>3
<1>8. Quiet'
  <2>1. \A x \in Attempts : row[x].state = "none" => row'[x].state = "none"
    BY <1>1 DEF Recoverable, Open
  <2> QED
    BY <1>0, <1>1, <2>1 DEF Quiet
<1>9. CallsOK' /\ JobTrue'
  BY <1>0, <1>6, JobKept DEF CallsOK
<1> QED
  BY <1>5, <1>6, <1>7, <1>8, <1>9 DEF CallInv, CallRows

\* Startup goes through the holds.
LEMMA RecoverAccountKeeps == ASSUME CallInv, RecoverAccount PROVE CallInv' /\ Teaches
<1>0. /\ TypeOK /\ Cap!CapTypeOK /\ Books /\ CallRows /\ CallsOK /\ Quiet /\ JobTrue
      /\ up /\ UNCHANGED ledger /\ UNCHANGED <<call, job>>
      /\ UNCHANGED <<row, bill, observed, cost, fix, audit, token, reach, sealed, retained, up>>
  BY DEF CallInv, Books, RecoverAccount, ledger, vars
<1>1. ASSUME NEW a \in Attempts, Account!RecoverHold(a)
      PROVE  CallInv' /\ Teaches
  <2>0. TrueRow(a) /\ SentRow(a) /\ CallRow(a) /\ ClaimRow(a) /\ hold \in [Attempts -> Cap!Hold]
    BY <1>0 DEF Books, BookRows, CallRows, Cap!CapTypeOK
  <2>1. /\ Cap!RecoverHold(a) /\ ~live /\ Account!Exists(a) /\ UNCHANGED <<gone, stored, live>>
        /\ hold' = IF Cap!Recovered(hold[a]) # NoAmount THEN Cap!Confirmed(a, Cap!Recovered(hold[a]))
                   ELSE [hold EXCEPT ![a].state = "uncertain"]
    BY <1>1, AccountSteps, AccountReads DEF Cap!RecoverHold, Cap!Unsettled, Cap!Exists, Account!Exists
  <2>2. [Cap!CapNext]_<<hold, gone, stored, live>>
    BY <2>1 DEF Cap!CapNext
  <2>3. Books' /\ Teaches /\ OthersKept(a)
    <3>1. CASE Cap!Recovered(hold[a]) # NoAmount
      <4>1. Cap!Recovered(hold[a]) = TrueCharge(a)
        BY <2>0, <3>1 DEF Cap!Recovered, TrueRow, SentRow, MaybeTrue, TrueCharge
      <4> QED
        BY <1>0, <2>1, <2>2, <3>1, <4>1, ConfirmKeeps, ChargeFacts
    <3>2. CASE Cap!Recovered(hold[a]) = NoAmount
      <4>1. /\ \A x \in Attempts : x # a => SameHold(x)
            /\ hold'[a].state = "uncertain" /\ hold'[a].actual = hold[a].actual /\ hold'[a].seen = hold[a].seen
            /\ hold'[a].ceiling = hold[a].ceiling
        BY <2>0, <2>1, <3>2 DEF Cap!Hold, SameHold
      <4>2. hold'[a].actual \in MaybeTrue(a) /\ hold'[a].seen \in MaybeTrue(a) /\ Account!Exists(a)'
        BY <2>0, <4>1 DEF TrueRow, Account!Exists
      <4> QED
        BY <1>0, <2>1, <2>2, <4>1, <4>2, HoldKeeps
    <3> QED
      BY <3>1, <3>2
  <2>4. call[a].at = "over"
    BY <1>0, <2>0, <2>1 DEF Quiet, CallRow, Account!Exists
  <2>5. ASSUME NEW x \in Attempts PROVE CallRow(x)' /\ ClaimRow(x)'
    <3>1. CASE x # a
      <4>1. SameSession(x) /\ SameHold(x) /\ CallRow(x) /\ ClaimRow(x)
        BY <1>0, <2>3, <3>1 DEF OthersKept, CallRows
      <4>2. Sealed(x) => Sealed(x)'
        BY <1>0 DEF Sealed
      <4> QED
        BY <1>0, <4>1, <4>2, CallKept
    <3>2. CASE x = a
      <4>1. (Called(a)' <=> Called(a)) /\ (Sealed(a)' <=> Sealed(a))
        BY <1>0 DEF Called, Sealed
      <4>2. CallRow(a)'
        BY <1>0, <2>0, <2>4, <4>1 DEF CallRow, Fresh
      <4>3. ClaimRow(a)'
        BY <1>0, <2>0, <4>1 DEF ClaimRow
      <4> QED
        BY <3>2, <4>2, <4>3
    <3> QED
      BY <3>1, <3>2
  <2>6. Quiet' /\ CallsOK'
    BY <1>0, <2>1 DEF Quiet, CallsOK
  <2>7. JobTrue'
    BY <1>0, <2>3, JobKept
  <2> QED
    BY <2>3, <2>5, <2>6, <2>7 DEF CallInv, CallRows
<1>2. ASSUME Account!Resume
      PROVE  CallInv' /\ Teaches
  <2>1. UNCHANGED <<hold, gone, stored>> /\ live'
    BY <1>2 DEF Account!Resume
  <2>2. TypeOK' /\ live' \in BOOLEAN
    BY <1>0, <1>2 DEF TypeOK, Account!Resume
  <2>3. Books' /\ Teaches /\ \A x \in Attempts : SameSession(x) /\ SameHold(x)
    BY <1>0, <2>1, <2>2, Untouched
  <2>4. ASSUME NEW x \in Attempts PROVE CallRow(x)' /\ ClaimRow(x)'
    <3>1. Sealed(x) => Sealed(x)'
      BY <1>0 DEF Sealed
    <3> QED
      BY <1>0, <2>3, <3>1, CallKept DEF CallRows
  <2>5. Quiet' /\ CallsOK'
    BY <1>0, <2>1 DEF Quiet, CallsOK
  <2>6. JobTrue'
    BY <1>0, <2>3, JobKept
  <2> QED
    BY <2>3, <2>4, <2>5, <2>6 DEF CallInv, CallRows
<1> QED
  BY <1>1, <1>2 DEF RecoverAccount

-----------------------------------------------------------------------------
(* The books agree with the provider *)

\* Every step keeps the invariant, and holds for a request, sends it or teaches.
LEMMA CallStep ==
  ASSUME CallInv, CallNext
  PROVE  /\ CallInv'
         /\ Teaches \/ \E a \in Attempts : ReserveSpend(a) \/ Fetch(a)
<1>1. ASSUME NEW a \in Attempts, Invocation(a)
      PROVE  CallInv' /\ (Teaches \/ ReserveSpend(a) \/ Fetch(a))
  BY <1>1, PrepareKeeps, BeginKeeps, RefuseKeeps, AbortKeeps, StopKeeps, ReserveKeeps, DispatchCostKeeps,
     DispatchSpendKeeps, FetchKeeps, HearNameKeeps, HearCostKeeps, NoteCostKeeps, GiveUpKeeps, NoAnswerKeeps,
     SettleSpendKeeps, FinishKeeps DEF Invocation
<1>2. ASSUME NEW a \in Attempts, Pick(a) \/ ReceiptJob(a)
      PROVE  CallInv' /\ Teaches
  BY <1>2, PickKeeps, AnswerKeeps, UnansweredKeeps, SaveEvidenceKeeps, PostEvidenceKeeps, AcknowledgeKeeps
     DEF ReceiptJob
<1>3. ASSUME NEW s \in Sessions, SealBilling(s)
      PROVE  CallInv' /\ Teaches
  BY <1>3, SealKeeps
<1>4. CASE Die \/ RecoverLedger \/ RecoverAccount
  BY <1>4, DieKeeps, RecoverLedgerKeeps, RecoverAccountKeeps
<1> QED
  BY <1>1, <1>2, <1>3, <1>4 DEF CallNext

\* So does a step that changes nothing.
LEMMA CallStutters == ASSUME CallInv, UNCHANGED callVars PROVE CallInv'
<1>1. /\ UNCHANGED <<row, bill, observed, cost, fix, audit, token, reach, sealed, retained, up>>
      /\ UNCHANGED <<hold, gone, stored, live, call, job>>
  BY DEF callVars, ledger, account, vars
<1>2. TypeOK /\ Books /\ CallRows /\ CallsOK /\ Quiet /\ JobTrue /\ live \in BOOLEAN
  BY DEF CallInv, Books, Cap!CapTypeOK
<1>3. TypeOK' /\ live' \in BOOLEAN
  BY <1>1, <1>2 DEF TypeOK
<1>4. Books' /\ Teaches /\ \A x \in Attempts : SameSession(x) /\ SameHold(x)
  BY <1>1, <1>2, <1>3, Untouched
<1>5. ASSUME NEW x \in Attempts PROVE CallRow(x)' /\ ClaimRow(x)'
  <2>1. Sealed(x) => Sealed(x)'
    BY <1>1 DEF Sealed
  <2> QED
    BY <1>1, <1>2, <1>4, <2>1, CallKept DEF CallRows
<1>6. CallsOK' /\ Quiet'
  BY <1>1, <1>2 DEF CallsOK, Quiet
<1>7. JobTrue'
  BY <1>1, <1>2, <1>4, JobKept
<1> QED
  BY <1>4, <1>5, <1>6, <1>7 DEF CallInv, CallRows

\* Both books start empty.
LEMMA CallStarts == CallInit => CallInv
<1> SUFFICES ASSUME CallInit PROVE CallInv
  OBVIOUS
<1> USE LedgerAssumption, CallAssumption
<1>1. Init /\ Cap!CapInit
  BY DEF CallInit, Account!CapInit, Cap!CapInit, Account!NoHold, Cap!NoHold
<1>2. TypeOK
  BY <1>1, InitType
<1>3. Cap!CapTypeOK
  BY <1>1, AccountConstants, Cap!InitType
<1>4. /\ row = [a \in Attempts |-> NoRow] /\ bill = [a \in Attempts |-> NoBill]
      /\ cost = [a \in Attempts |-> NoCost] /\ fix = [a \in Attempts |-> NoFix]
      /\ token = [a \in Attempts |-> "none"] /\ reach = [a \in Attempts |-> "unsent"]
      /\ retained = [a \in Attempts |-> NoAmount] /\ up = TRUE
      /\ hold = [a \in Attempts |-> Cap!NoHold] /\ live = TRUE
      /\ gone = [spent |-> 0, reserved |-> 0, uncertain |-> 0, breached |-> FALSE] /\ stored = NoAmount
      /\ call = [a \in Attempts |-> NewCall] /\ job = NoJob
  BY <1>1 DEF Init, Cap!CapInit, CallInit
<1>5. ASSUME NEW x \in Attempts PROVE TrueRow(x) /\ SentRow(x) /\ CallRow(x) /\ ClaimRow(x)
  <2>1. /\ row[x].state = "none" /\ cost[x].charged = NoAmount /\ fix[x].kind = "none" /\ token[x] = "none"
        /\ reach[x] = "unsent" /\ retained[x] = NoAmount
        /\ hold[x].state = "none" /\ hold[x].actual = NoAmount /\ hold[x].seen = NoAmount
        /\ call[x] = NewCall /\ call[x].at = "idle" /\ call[x].cost = NoAmount
    BY <1>4 DEF NoRow, NoCost, NoFix, Cap!NoHold, NewCall
  <2> QED
    BY <2>1 DEF TrueRow, SentRow, CallRow, ClaimRow, Fresh, MaybeTrue, Known, Settled, Called, Account!Exists
<1>6. CallsOK
  BY <1>4 DEF CallsOK, NewCall, Stages, MaybeAmount
<1>7. Quiet /\ JobTrue
  BY <1>4 DEF Quiet, JobTrue, Jobs, NoJob, MaybeAmount
<1> QED
  BY <1>2, <1>3, <1>5, <1>6, <1>7 DEF CallInv, Books, BookRows, CallRows

\* The books and the invocations stay in step.
LEMMA CallAlways == CallSpec => []CallInv
<1>1. CallInv /\ [CallNext]_callVars => CallInv'
  BY CallStep, CallStutters
<1> QED
  BY <1>1, CallStarts, PTL DEF CallSpec

\* A settled hold carries what the provider really charged, whoever settled it:
\* the invocation, the retirement fence, startup or the receipt job.
THEOREM HoldsAreTruthful == CallSpec => []AccountTruthful
<1>1. CallInv => AccountTruthful
  BY ChargeFacts DEF CallInv, Books, BookRows, TrueRow, MaybeTrue, AccountTruthful
<1> QED
  BY <1>1, CallAlways, PTL

\* A charge the session's book takes for known is what the provider really charged.
THEOREM BillsAreTruthful == CallSpec => []SessionTruthful
<1>1. CallInv => SessionTruthful
  BY DEF CallInv, Books, BookRows, TrueRow, SessionTruthful
<1> QED
  BY <1>1, CallAlways, PTL

-----------------------------------------------------------------------------
(* What the account commits to the requests *)

\* What a request takes from the account: its true charge once settled, the
\* amount held until then.
Commits(x) == IF hold[x].actual # NoAmount THEN TrueCharge(x)
              ELSE IF Account!Exists(x) THEN Cap!AmountHeld(Ceiling) ELSE 0
CommitsOf == [x \in Attempts |-> Commits(x)]

\* The amount held covers the ceiling.
LEMMA HeldCovers == Cap!AmountHeld(Ceiling) \in Nat /\ Ceiling <= Cap!AmountHeld(Ceiling) /\ Ceiling \in Nat
BY CallAssumption DEF Cap!AmountHeld

\* What a row of the account loads on it.
LEMMA LoadIs ==
  ASSUME CallInv, NEW x \in Attempts
  PROVE  /\ Cap!Load[x] = Commits(x) /\ CommitsOf[x] = Commits(x) /\ Commits(x) \in Nat
         /\ Called(x) => Account!Exists(x)
         /\ hold[x].actual # NoAmount => Account!Exists(x) /\ hold[x].actual = TrueCharge(x)
<1>1. TrueRow(x) /\ SentRow(x) /\ Cap!CapTypeOK
  BY DEF CallInv, Books, BookRows
<1>2. /\ Called(x) => Account!Exists(x)
      /\ hold[x].actual # NoAmount => Account!Exists(x) /\ hold[x].actual = TrueCharge(x)
  BY <1>1 DEF TrueRow, SentRow, MaybeTrue, Account!Exists
<1>3. Account!Exists(x) => hold[x].reserved = Cap!AmountHeld(Ceiling)
  BY <1>1 DEF SentRow, Cap!CapTypeOK, Cap!Exists, Account!Exists
<1>4. Cap!Load[x] = Commits(x)
  BY <1>2, <1>3, AccountReads DEF Cap!Load, Cap!Settled, Cap!Unsettled, Commits
<1> QED
  BY <1>2, <1>4, ChargeFacts, HeldCovers DEF Commits, CommitsOf

\* The commitment of the account is the sum of them.
LEMMA CommitsSum ==
  CallInv => /\ Account!Committed = SumFunctionOnSet(CommitsOf, Attempts)
             /\ \A x \in Attempts : CommitsOf[x] \in Nat
<1> SUFFICES ASSUME CallInv
             PROVE  /\ Account!Committed = SumFunctionOnSet(CommitsOf, Attempts)
                    /\ \A x \in Attempts : CommitsOf[x] \in Nat
  OBVIOUS
<1>1. Cap!CapTypeOK /\ gone = [spent |-> 0, reserved |-> 0, uncertain |-> 0, breached |-> FALSE]
  BY DEF CallInv, Books, Quiet
<1>2. /\ Cap!Committed = Cap!SumFunctionOnSet(Cap!Load, Attempts) + Cap!Gone
      /\ Cap!SumFunctionOnSet(Cap!Load, Attempts) \in Nat
  BY <1>1, AccountConstants, Cap!CommittedIs
<1>3. Cap!Gone = 0
  BY <1>1 DEF Cap!Gone
<1>4. Cap!SumFunctionOnSet(Cap!Load, Attempts) = SumFunctionOnSet(Cap!Load, Attempts)
  BY AccountSums
<1>5. SumFunctionOnSet(Cap!Load, Attempts) = SumFunctionOnSet(CommitsOf, Attempts)
  BY LoadIs, LedgerAssumption, SumSame
<1>6. Account!Committed = SumFunctionOnSet(CommitsOf, Attempts)
  BY <1>2, <1>3, <1>4, <1>5, AccountReads
<1> QED
  BY <1>6, LoadIs

\* No request that was sent cost more than its ceiling.
WithinCeiling == \A a \in Attempts : Called(a) => ChargeOf[a] <= Ceiling

\* A request within its ceiling commits at least what it costs.
LEMMA CommitsCover ==
  ASSUME CallInv, WithinCeiling, NEW x \in Attempts
  PROVE  TrueCharge(x) <= Commits(x) /\ TrueCharge(x) <= Cap!AmountHeld(Ceiling)
<1>1. TrueCharge(x) <= Cap!AmountHeld(Ceiling)
  BY HeldCovers, ChargeFacts DEF TrueCharge, WithinCeiling
<1> QED
  BY <1>1, LoadIs, ChargeFacts DEF Commits, TrueCharge

\* A step that teaches a book commits no more.
LEMMA TeachingCommitsNoMore ==
  ASSUME CallInv, CallInv', Teaches, WithinCeiling, NEW x \in Attempts
  PROVE  CommitsOf'[x] <= CommitsOf[x]
<1>1. /\ Called(x)' <=> Called(x)
      /\ Account!Exists(x)' <=> Account!Exists(x)
      /\ hold[x].actual # NoAmount => hold'[x].actual # NoAmount
  BY DEF Teaches
<1>2. TrueCharge(x)' = TrueCharge(x)
  BY <1>1 DEF TrueCharge
<1>3. TrueCharge(x) <= Cap!AmountHeld(Ceiling) /\ TrueCharge(x) \in Nat
  BY CommitsCover, ChargeFacts
<1>4. hold'[x].actual # NoAmount => Account!Exists(x)'
  BY DEF CallInv, Books, BookRows, SentRow
<1>5. CommitsOf[x] = Commits(x) /\ CommitsOf'[x] = Commits(x)'
  BY DEF CommitsOf
<1>6. Commits(x)' = IF hold'[x].actual # NoAmount THEN TrueCharge(x)
                    ELSE IF Account!Exists(x) THEN Cap!AmountHeld(Ceiling) ELSE 0
  BY <1>1, <1>2 DEF Commits, Cap!AmountHeld
<1> QED
  BY <1>1, <1>3, <1>4, <1>5, <1>6, HeldCovers DEF Commits

\* Nor does one that sends a request or changes nothing.
LEMMA SendingCommitsNoMore ==
  ASSUME CallInv, CallInv', NEW a \in Attempts, Fetch(a), NEW x \in Attempts
  PROVE  CommitsOf'[x] = CommitsOf[x]
<1>1. /\ OthersKept(a) /\ UNCHANGED hold /\ Fresh(a) /\ ~Called(a)
  BY FetchKeeps
<1>2. x # a => (Called(x)' <=> Called(x))
  BY <1>1 DEF OthersKept, SameSession, Called
<1>3. hold[a].actual = NoAmount
  BY <1>1, Before DEF CallRow
<1>4. Account!Exists(x)' <=> Account!Exists(x)
  BY <1>1 DEF Account!Exists
<1>5. Commits(x)' = Commits(x)
  BY <1>1, <1>2, <1>3, <1>4 DEF Commits, TrueCharge, Cap!AmountHeld
<1> QED
  BY <1>5 DEF CommitsOf

\* The account's cap bounds what it commits to requests within their ceiling.
Capped == WithinCeiling => Account!Committed <= AccountCap

\* Of two states of the account, the second commits no more if no request does.
LEMMA CommittedFalls ==
  ASSUME CallInv, CallInv', \A x \in Attempts : CommitsOf'[x] <= CommitsOf[x]
  PROVE  Account!Committed' <= Account!Committed
<1>1. CallInv' => (Account!Committed = SumFunctionOnSet(CommitsOf, Attempts)
                   /\ \A x \in Attempts : CommitsOf[x] \in Nat)'
  BY CommitsSum, PTL
<1>2. /\ Account!Committed = SumFunctionOnSet(CommitsOf, Attempts)
      /\ \A x \in Attempts : CommitsOf[x] \in Nat
  BY CommitsSum
<1>3. /\ Account!Committed' = SumFunctionOnSet(CommitsOf', Attempts)
      /\ \A x \in Attempts : CommitsOf'[x] \in Nat
  BY <1>1
<1>4. SumFunctionOnSet(CommitsOf', Attempts) <= SumFunctionOnSet(CommitsOf, Attempts)
  BY <1>2, <1>3, LedgerAssumption, SumMonotone
<1> QED
  BY <1>2, <1>3, <1>4

\* A reservation fits.
LEMMA ReserveFits ==
  ASSUME CallInv, NEW a \in Attempts, ReserveSpend(a)
  PROVE  Account!Committed + Account!AmountHeld(Ceiling) <= AccountCap
<1>1. Cap!Fits(Cap!AmountHeld(Ceiling))
  BY ReserveKeeps DEF Cap!Reserve
<1>2. Cap!CapMicro = AccountCap
  BY DEF Cap!CapMicro, CallInv, Quiet
<1> QED
  BY <1>1, <1>2, AccountReads DEF Cap!Fits

\* After it the account commits what was held too.
LEMMA ReserveCommits ==
  ASSUME CallInv, NEW a \in Attempts, ReserveSpend(a)
  PROVE  Account!Committed' = Account!Committed + Account!AmountHeld(Ceiling)
<1>1. Cap!Reserve(a, Ceiling) /\ CallInv'
  BY ReserveKeeps
<1>2. Cap!CapTypeOK /\ Cap!CapTypeOK' /\ Ceiling \in {Ceiling}
  BY <1>1 DEF CallInv, Books
<1>3. Cap!Committed' = Cap!Committed + Cap!AmountHeld(Ceiling)
  BY <1>1, <1>2, AccountConstants, Cap!CommittedByReserve
<1>4. (Account!Committed = Cap!Committed) /\ (Account!Committed = Cap!Committed)'
  BY AccountReads, PTL
<1> QED
  BY <1>3, <1>4, AccountReads

\* Both are amounts.
LEMMA CommittedNat == CallInv => Account!Committed \in Nat /\ AccountCap \in Nat
BY CommitsSum, LedgerAssumption, CallAssumption, SumType

\* The bound is kept.
LEMMA CappedKept == ASSUME CallInv, CallInv', Capped, [CallNext]_callVars PROVE Capped'
<1> SUFFICES ASSUME WithinCeiling' PROVE Account!Committed' <= AccountCap
  BY DEF Capped
<1>0. Account!Committed \in Nat /\ Account!Committed' \in Nat /\ AccountCap \in Nat
  <2>1. (Account!Committed \in Nat /\ AccountCap \in Nat) /\ (Account!Committed \in Nat)'
    BY CommittedNat, PTL
  <2> QED
    BY <2>1
<1>1. CASE UNCHANGED callVars
  <2>1. UNCHANGED <<hold, gone, stored, live>> /\ UNCHANGED reach
    BY <1>1 DEF callVars, account, ledger, vars
  <2>2. WithinCeiling
    BY <2>1 DEF WithinCeiling, Called
  <2>3. \A x \in Attempts : CommitsOf'[x] = CommitsOf[x]
    BY <2>1 DEF CommitsOf, Commits, TrueCharge, Called, Account!Exists, Cap!AmountHeld
  <2>4. Account!Committed' <= Account!Committed
    BY <2>3, LoadIs, CommittedFalls
  <2> QED
    BY <1>0, <2>2, <2>4 DEF Capped
<1>2. ASSUME NEW a \in Attempts, ReserveSpend(a) PROVE Account!Committed' <= AccountCap
  BY <1>2, ReserveFits, ReserveCommits
<1>3. ASSUME NEW a \in Attempts, Fetch(a) PROVE Account!Committed' <= AccountCap
  <2>1. /\ OthersKept(a) /\ ~Called(a)
    BY <1>3, FetchKeeps
  <2>2. WithinCeiling
    BY <2>1 DEF WithinCeiling, OthersKept, SameSession, Called
  <2>3. Account!Committed' <= Account!Committed
    BY <1>3, LoadIs, SendingCommitsNoMore, CommittedFalls
  <2> QED
    BY <1>0, <2>2, <2>3 DEF Capped
<1>4. CASE Teaches
  <2>1. WithinCeiling
    BY <1>4 DEF WithinCeiling, Teaches
  <2>2. Account!Committed' <= Account!Committed
    BY <1>4, <2>1, TeachingCommitsNoMore, CommittedFalls
  <2> QED
    BY <1>0, <2>1, <2>2 DEF Capped
<1> QED
  BY <1>1, <1>2, <1>3, <1>4, CallStep

\* The account never understates what its requests really cost, and commits no
\* more than its cap, unless a single request cost more than its ceiling.
THEOREM SpendStaysCapped == CallSpec => []RealSpendCapped
<1>1. CallInit => Capped
  <2> SUFFICES ASSUME CallInit PROVE Account!Committed <= AccountCap
    BY DEF Capped
  <2>1. CallInv
    BY CallStarts
  <2>2. \A x \in Attempts : CommitsOf[x] = 0
    BY DEF CallInit, Account!CapInit, Account!NoHold, CommitsOf, Commits, Account!Exists
  <2>3. SumFunctionOnSet(CommitsOf, Attempts) = 0
    BY <2>2, LedgerAssumption, SumZero
  <2> QED
    BY <2>1, <2>3, CommitsSum, CallAssumption
<1>2. CallInv /\ CallInv' /\ Capped /\ [CallNext]_callVars => Capped'
  BY CappedKept
<1>3. CallInv /\ Capped => RealSpendCapped
  <2> SUFFICES ASSUME CallInv, Capped, WithinCeiling
               PROVE  /\ SumFunction([a \in Attempts |-> TrueCharge(a)]) <= Account!Committed
                      /\ Account!Committed <= AccountCap
    BY DEF RealSpendCapped, WithinCeiling
  <2> DEFINE Charge1 == [a \in Attempts |-> TrueCharge(a)]
  <2>1. \A x \in Attempts : Charge1[x] \in Nat /\ CommitsOf[x] \in Nat /\ Charge1[x] <= CommitsOf[x]
    BY ChargeFacts, LoadIs, CommitsCover
  <2>2. SumFunction(Charge1) = SumFunctionOnSet(Charge1, Attempts)
    BY DEF SumFunction
  <2> HIDE DEF Charge1
  <2>3. SumFunctionOnSet(Charge1, Attempts) <= SumFunctionOnSet(CommitsOf, Attempts)
    BY <2>1, LedgerAssumption, SumMonotone
  <2>4. SumFunction(Charge1) <= Account!Committed
    BY <2>2, <2>3, CommitsSum
  <2> USE DEF Charge1
  <2> QED
    BY <2>4 DEF Capped
<1> QED
  BY <1>1, <1>2, <1>3, CallAlways, PTL DEF CallSpec

-----------------------------------------------------------------------------
(* The two books keep their promise *)

\* What the two books say in the terms of PaidRequests.
StageMap   == [a \in Attempts |-> StageOf(a)]
AccountMap == [a \in Attempts |-> hold[a].actual]
SessionMap == [a \in Attempts |-> IF Known(a) THEN bill[a].micro ELSE NoAmount]

\* What PaidRequests commits is what the account commits.
LEMMA PromisedCommitted == CallInv => Promise!Committed = Account!Committed
<1> SUFFICES ASSUME CallInv PROVE Promise!Committed = Account!Committed
  OBVIOUS
<1> DEFINE F == [r \in Attempts |-> Promise!Commitment(r)]
<1>1. ASSUME NEW x \in Attempts PROVE F[x] = CommitsOf[x]
  <2>1. F[x] = IF hold[x].actual # NoAmount THEN hold[x].actual
               ELSE IF StageOf(x) = "idle" THEN 0 ELSE Account!AmountHeld(Ceiling)
    BY DEF Promise!Commitment
  <2>2. StageOf(x) = "idle" <=> ~Account!Exists(x)
    BY LoadIs DEF StageOf
  <2> QED
    BY <2>1, <2>2, LoadIs, AccountReads DEF Commits
<1>2. Promise!Committed = Promise!SumFunctionOnSet(F, Attempts)
  BY DEF Promise!Committed, Promise!SumFunction
<1> HIDE DEF F
<1>3. Promise!SumFunctionOnSet(F, Attempts) = SumFunctionOnSet(F, Attempts)
  BY AccountSums
<1>4. SumFunctionOnSet(F, Attempts) = SumFunctionOnSet(CommitsOf, Attempts)
  BY <1>1, LedgerAssumption, SumSame
<1> QED
  BY <1>2, <1>3, <1>4, CommitsSum

\* The true charge of a request is the same in both terms.
LEMMA PromisedCharge == ASSUME NEW x \in Attempts PROVE Promise!TrueCharge(x) = TrueCharge(x)
BY DEF Promise!TrueCharge, StageOf, TrueCharge

\* The abstract actions, in the terms of the maps.
LEMMA PromisedHold ==
  ASSUME NEW a \in Attempts, StageMap[a] = "idle", AccountMap[a] = NoAmount, SessionMap[a] = NoAmount,
         Promise!Committed + Account!AmountHeld(Ceiling) <= AccountCap,
         StageMap' = [StageMap EXCEPT ![a] = "held"], AccountMap' = AccountMap, SessionMap' = SessionMap
  PROVE  Promise!Hold(a)
BY DEF Promise!Hold, Promise!Open, StageMap, AccountMap, SessionMap

\* A request that is first sent is a Send of the abstract specification.
LEMMA PromisedSend ==
  ASSUME NEW a \in Attempts, StageMap[a] = "held", AccountMap[a] = NoAmount, SessionMap[a] = NoAmount,
         StageMap' = [StageMap EXCEPT ![a] = "sent"], AccountMap' = AccountMap, SessionMap' = SessionMap
  PROVE  Promise!Send(a)
BY DEF Promise!Send, Promise!Open, StageMap, AccountMap, SessionMap

\* An account that learns the charges of some requests is a SettleAccount.
LEMMA PromisedSettleAccount ==
  ASSUME NEW S \in SUBSET Attempts, \A x \in S : StageMap[x] # "idle" /\ AccountMap[x] = NoAmount,
         \A x \in Attempts : AccountMap'[x] = IF x \in S THEN TrueCharge(x) ELSE AccountMap[x],
         StageMap' = StageMap, SessionMap' = SessionMap
  PROVE  Promise!SettleAccount(S)
<1>1. AccountMap' = [x \in Attempts |-> IF x \in S THEN Promise!TrueCharge(x) ELSE AccountMap[x]]
  BY PromisedCharge DEF AccountMap
<1> QED
  BY <1>1 DEF Promise!SettleAccount, Promise!Learnt, StageMap, AccountMap, SessionMap

\* A session that learns the charges of some requests is a SettleSession.
LEMMA PromisedSettleSession ==
  ASSUME NEW S \in SUBSET Attempts, \A x \in S : SessionMap[x] = NoAmount,
         \A x \in Attempts : SessionMap'[x] = IF x \in S THEN TrueCharge(x) ELSE SessionMap[x],
         StageMap' = StageMap, AccountMap' = AccountMap
  PROVE  Promise!SettleSession(S)
<1>1. SessionMap' = [x \in Attempts |-> IF x \in S THEN Promise!TrueCharge(x) ELSE SessionMap[x]]
  BY PromisedCharge DEF SessionMap
<1> QED
  BY <1>1 DEF Promise!SettleSession, Promise!Learnt, StageMap, AccountMap, SessionMap

\* A step that teaches a book is one that settles it.
LEMMA TeachingSettles ==
  ASSUME CallInv, CallInv', Teaches
  PROVE  \E S \in SUBSET Attempts : Promise!SettleAccount(S) \/ Promise!SettleSession(S)
<1>0. ASSUME NEW x \in Attempts
      PROVE  /\ StageMap'[x] = StageMap[x] /\ TrueCharge(x)' = TrueCharge(x) /\ TrueCharge(x) # NoAmount
             /\ hold[x].actual # NoAmount => hold[x].actual = TrueCharge(x) /\ hold'[x].actual # NoAmount
             /\ hold'[x].actual # NoAmount => hold'[x].actual = TrueCharge(x) /\ StageMap[x] # "idle"
             /\ SessionMap[x] = IF Known(x) THEN TrueCharge(x) ELSE NoAmount
             /\ SessionMap'[x] = IF Known(x)' THEN TrueCharge(x) ELSE NoAmount
             /\ Known(x) => Known(x)'
             /\ AccountMap[x] = hold[x].actual /\ AccountMap'[x] = hold'[x].actual
  <2>1. TrueRow(x) /\ SentRow(x) /\ TrueRow(x)' /\ SentRow(x)'
    BY DEF CallInv, Books, BookRows
  <2>2. /\ Called(x)' <=> Called(x)
        /\ Account!Exists(x)' <=> Account!Exists(x)
        /\ Known(x) => Known(x)'
        /\ hold[x].actual # NoAmount => hold'[x].actual # NoAmount
    BY DEF Teaches
  <2>3. TrueCharge(x)' = TrueCharge(x) /\ TrueCharge(x) # NoAmount
    BY <2>2, ChargeFacts DEF TrueCharge
  <2>4. StageMap[x] = StageOf(x) /\ StageMap'[x] = StageOf(x)' /\ StageOf(x)' = StageOf(x)
    BY <2>2 DEF StageMap, StageOf
  <2>5. hold'[x].actual # NoAmount => hold'[x].actual = TrueCharge(x) /\ StageMap[x] # "idle"
    BY <2>1, <2>2, <2>3, <2>4 DEF TrueRow, SentRow, MaybeTrue, StageOf
  <2>6. /\ SessionMap[x] = IF Known(x) THEN TrueCharge(x) ELSE NoAmount
        /\ SessionMap'[x] = IF Known(x)' THEN TrueCharge(x) ELSE NoAmount
    BY <2>1, <2>3 DEF TrueRow, SessionMap
  <2>7. hold[x].actual # NoAmount => hold[x].actual = TrueCharge(x)
    BY <2>1 DEF TrueRow, MaybeTrue
  <2> QED
    BY <2>2, <2>3, <2>4, <2>5, <2>6, <2>7 DEF AccountMap
<1>1. StageMap' = StageMap
  BY <1>0 DEF StageMap
<1>2. CASE \A x \in Attempts : hold'[x].actual = hold[x].actual
  <2>0. PICK S \in SUBSET Attempts : \A x \in Attempts : x \in S <=> Known(x)' /\ ~Known(x)
    <3> WITNESS {x \in Attempts : Known(x)' /\ ~Known(x)} \in SUBSET Attempts
    <3> QED
      OBVIOUS
  <2>1. AccountMap' = AccountMap
    BY <1>2 DEF AccountMap
  <2>2. \A x \in S : SessionMap[x] = NoAmount
    BY <1>0, <2>0
  <2>3. \A x \in Attempts : SessionMap'[x] = IF x \in S THEN TrueCharge(x) ELSE SessionMap[x]
    BY <1>0, <2>0
  <2>4. Promise!SettleSession(S)
    BY <1>1, <2>1, <2>2, <2>3, PromisedSettleSession
  <2> QED
    BY <2>4
<1>3. CASE \A x \in Attempts : Known(x)' <=> Known(x)
  <2>0. PICK S \in SUBSET Attempts : \A x \in Attempts : x \in S <=> hold'[x].actual # NoAmount /\ hold[x].actual = NoAmount
    <3> WITNESS {x \in Attempts : hold'[x].actual # NoAmount /\ hold[x].actual = NoAmount} \in SUBSET Attempts
    <3> QED
      OBVIOUS
  <2>1. SessionMap' = SessionMap
    <3>1. \A x \in Attempts : SessionMap'[x] = SessionMap[x]
      BY <1>0, <1>3
    <3> QED
      BY <3>1 DEF SessionMap
  <2>2. \A x \in S : StageMap[x] # "idle" /\ AccountMap[x] = NoAmount
    BY <1>0, <2>0
  <2>3. \A x \in Attempts : AccountMap'[x] = IF x \in S THEN TrueCharge(x) ELSE AccountMap[x]
    BY <1>0, <2>0
  <2>4. Promise!SettleAccount(S)
    BY <1>1, <2>1, <2>2, <2>3, PromisedSettleAccount
  <2> QED
    BY <2>4
<1> QED
  BY <1>2, <1>3 DEF Teaches

\* What the books say of an attempt that a step leaves alone.
LEMMA MapsKept ==
  ASSUME NEW x \in Attempts, SameSession(x), SameHold(x)
  PROVE  StageMap'[x] = StageMap[x] /\ AccountMap'[x] = AccountMap[x] /\ SessionMap'[x] = SessionMap[x]
BY DEF SameSession, SameHold, StageMap, AccountMap, SessionMap, StageOf, Called, Known, Settled, Account!Exists

\* The maps, before and after a step.
LEMMA MapsDomain ==
  /\ StageMap = [x \in Attempts |-> StageMap[x]] /\ StageMap' = [x \in Attempts |-> StageMap'[x]]
  /\ AccountMap = [x \in Attempts |-> AccountMap[x]] /\ AccountMap' = [x \in Attempts |-> AccountMap'[x]]
  /\ SessionMap = [x \in Attempts |-> SessionMap[x]] /\ SessionMap' = [x \in Attempts |-> SessionMap'[x]]
BY DEF StageMap, AccountMap, SessionMap

\* A hold that is made is one the promise makes.
LEMMA ReservingHolds ==
  ASSUME CallInv, NEW a \in Attempts, ReserveSpend(a)
  PROVE  Promise!Hold(a)
<1>1. /\ OthersKept(a) /\ UNCHANGED ledger /\ Fresh(a)
      /\ hold[a].state = "none" /\ Account!Exists(a)' /\ hold'[a].actual = NoAmount
  BY ReserveKeeps
<1>2. UNCHANGED <<row, bill, fix, reach>>
  BY <1>1 DEF ledger, vars
<1>3. ~Called(a) /\ ~Called(a)' /\ ~Known(a) /\ ~Known(a)' /\ hold[a].actual = NoAmount /\ ~Account!Exists(a)
  BY <1>1, <1>2, Before DEF CallRow, Called, Known, Settled, Account!Exists
<1>4. /\ StageMap[a] = "idle" /\ StageMap'[a] = "held" /\ AccountMap[a] = NoAmount /\ AccountMap'[a] = NoAmount
      /\ SessionMap[a] = NoAmount /\ SessionMap'[a] = NoAmount
  BY <1>1, <1>3 DEF StageMap, AccountMap, SessionMap, StageOf
<1>5. \A x \in Attempts : x # a =>
        StageMap'[x] = StageMap[x] /\ AccountMap'[x] = AccountMap[x] /\ SessionMap'[x] = SessionMap[x]
  BY <1>1, MapsKept DEF OthersKept
<1>6. /\ StageMap' = [StageMap EXCEPT ![a] = "held"]
      /\ AccountMap' = AccountMap /\ SessionMap' = SessionMap
  BY <1>4, <1>5, MapsDomain
<1>7. Promise!Committed + Account!AmountHeld(Ceiling) <= AccountCap
  BY ReserveFits, PromisedCommitted
<1> QED
  BY <1>4, <1>6, <1>7, PromisedHold

\* A request that leaves is one the promise sends.
LEMMA FetchingSends ==
  ASSUME CallInv, NEW a \in Attempts, Fetch(a)
  PROVE  Promise!Send(a)
<1>1. /\ OthersKept(a) /\ UNCHANGED <<row, bill, fix, hold>>
      /\ Fresh(a) /\ Account!Exists(a) /\ ~Called(a) /\ Called(a)'
  BY FetchKeeps
<1>2. ~Known(a) /\ ~Known(a)' /\ hold[a].actual = NoAmount
  BY <1>1, Before DEF CallRow, Known, Settled
<1>3. /\ StageMap[a] = "held" /\ StageMap'[a] = "sent" /\ AccountMap[a] = NoAmount /\ AccountMap'[a] = NoAmount
      /\ SessionMap[a] = NoAmount /\ SessionMap'[a] = NoAmount
  BY <1>1, <1>2 DEF StageMap, AccountMap, SessionMap, StageOf
<1>4. \A x \in Attempts : x # a =>
        StageMap'[x] = StageMap[x] /\ AccountMap'[x] = AccountMap[x] /\ SessionMap'[x] = SessionMap[x]
  BY <1>1, MapsKept DEF OthersKept
<1>5. /\ StageMap' = [StageMap EXCEPT ![a] = "sent"]
      /\ AccountMap' = AccountMap /\ SessionMap' = SessionMap
  BY <1>3, <1>4, MapsDomain
<1> QED
  BY <1>3, <1>5, PromisedSend

\* Every step of an invocation, of startup, of retirement or of the receipt job
\* holds for a request, sends it, settles one of the two books, or changes nothing
\* in either: the two books implement PaidRequests.
THEOREM BooksKeepPromise == CallSpec => Promised
<1>1. CallInit => Promise!SpendInit
  <2> SUFFICES ASSUME CallInit PROVE Promise!SpendInit
    OBVIOUS
  <2>1. /\ row = [a \in Attempts |-> NoRow] /\ reach = [a \in Attempts |-> "unsent"]
        /\ hold = [a \in Attempts |-> Account!NoHold]
    BY DEF CallInit, Init, Account!CapInit
  <2>2. \A x \in Attempts : StageOf(x) = "idle" /\ ~Known(x) /\ hold[x].actual = NoAmount
    BY <2>1 DEF StageOf, Called, Account!Exists, Known, Settled, NoRow, Account!NoHold
  <2> QED
    BY <2>2 DEF Promise!SpendInit
<1>2. CallInv /\ CallInv' /\ [CallNext]_callVars => [Promise!SpendNext]_(Promise!spendVars)
  <2> SUFFICES ASSUME CallInv, CallInv', [CallNext]_callVars
               PROVE  [Promise!SpendNext]_(Promise!spendVars)
    OBVIOUS
  <2>1. CASE UNCHANGED callVars
    <3>1. UNCHANGED <<row, bill, fix, reach, hold>>
      BY <2>1 DEF callVars, account, ledger, vars
    <3> QED
      BY <3>1 DEF Promise!spendVars, StageOf, Called, Account!Exists, Known, Settled
  <2>2. ASSUME NEW a \in Attempts, ReserveSpend(a) \/ Fetch(a) PROVE Promise!SpendNext
    BY <2>2, ReservingHolds, FetchingSends DEF Promise!SpendNext
  <2>3. CASE Teaches
    BY <2>3, TeachingSettles DEF Promise!SpendNext
  <2> QED
    BY <2>1, <2>2, <2>3, CallStep
<1> QED
  BY <1>1, <1>2, CallAlways, PTL DEF CallSpec, Promised, Promise!SpendSpec
=============================================================================
