---------------------------- MODULE PaidRequests ----------------------------
(***************************************************************************)
(* What the two books of a paid request promise together, with neither     *)
(* book: a request is held for before it is sent, at most once, and only   *)
(* within the cap of the account; each book learns what the provider       *)
(* really charged, or that nothing was sent, once and for all; and once a  *)
(* book is closed over a request, that request is not sent any more.       *)
(***************************************************************************)
EXTENDS Naturals, Functions

CONSTANTS Requests, ChargeOf, HoldOf, AccountCap, Unknown

VARIABLES
  stage,     \* "idle", "held" or "sent"
  account,   \* the charge settled on the provider account, or Unknown
  session    \* the charge known to the session, or Unknown

spendVars == <<stage, account, session>>

TrueCharge(r) == IF stage[r] = "sent" THEN ChargeOf[r] ELSE 0

Commitment(r) == IF account[r] # Unknown THEN account[r] ELSE IF stage[r] = "idle" THEN 0 ELSE HoldOf
Committed     == SumFunction([r \in Requests |-> Commitment(r)])

SpendInit ==
  /\ stage = [r \in Requests |-> "idle"]
  /\ account = [r \in Requests |-> Unknown]
  /\ session = [r \in Requests |-> Unknown]

Open(r) == account[r] = Unknown /\ session[r] = Unknown

Hold(r) ==
  /\ stage[r] = "idle" /\ Open(r)
  /\ Committed + HoldOf <= AccountCap
  /\ stage' = [stage EXCEPT ![r] = "held"]
  /\ UNCHANGED <<account, session>>

Send(r) ==
  /\ stage[r] = "held" /\ Open(r)
  /\ stage' = [stage EXCEPT ![r] = "sent"]
  /\ UNCHANGED <<account, session>>

\* Both books learn the truth; startup teaches a book about several requests.
Learnt(book, S) == [r \in Requests |-> IF r \in S THEN TrueCharge(r) ELSE book[r]]

SettleAccount(S) ==
  /\ \A r \in S : stage[r] # "idle" /\ account[r] = Unknown
  /\ account' = Learnt(account, S)
  /\ UNCHANGED <<stage, session>>

SettleSession(S) ==
  /\ \A r \in S : session[r] = Unknown
  /\ session' = Learnt(session, S)
  /\ UNCHANGED <<stage, account>>

SpendNext ==
  \/ \E r \in Requests : Hold(r) \/ Send(r)
  \/ \E S \in SUBSET Requests : SettleAccount(S) \/ SettleSession(S)

SpendSpec == SpendInit /\ [][SpendNext]_spendVars
=============================================================================
