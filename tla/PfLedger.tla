------------------------------- MODULE PfLedger -------------------------------
(***************************************************************************)
(* The money of one member: the PF balance, the balances of the two        *)
(* employment records it is made of, and the four flows that touch it: the *)
(* Form 31 advance, the Form 13 transfer, the contribution an ECR payment  *)
(* posts, and the credit of the final settlement.                          *)
(***************************************************************************)
EXTENDS Naturals

CONSTANTS
  Opening,          \* balance of the current record when the scenario starts
  Unconsolidated,   \* balance of the previous record, outside the PF balance
  OpeningWage,      \* wage basis of the latest seeded month
  Postings,         \* contributions an ECR can post: [wage, pays]
  Goals,            \* purposes of an advance
  Multiple,         \* [Goals -> Nat]: GOAL_WAGE_MULTIPLE
  RequiredMonths,   \* [Goals -> Nat]: REQUIRED_SERVICE_MONTHS
  ServiceMonths,    \* completedServiceMonths; every employment has ended
  SeedGoal, SeedRequest,   \* the advance of the fixtures
  Amounts           \* amounts a member asks for

ASSUME MoneyAssumption ==
  /\ Opening \in Nat /\ Unconsolidated \in Nat /\ OpeningWage \in Nat \ {0}
  /\ \A c \in Postings : c.wage \in Nat \ {0} /\ c.pays \in Nat
  /\ Multiple \in [Goals -> Nat \ {0}] /\ RequiredMonths \in [Goals -> Nat]
  /\ ServiceMonths \in Nat /\ SeedGoal \in Goals /\ SeedRequest \in Nat
  /\ Amounts \subseteq Nat

VARIABLES
  balance,      \* member.currentPfBalancePaise
  previous,     \* pfBalancePaise of the previous employment record
  current,      \* pfBalancePaise of the current employment record
  transferred,  \* transferredAmountPaise of the previous record
  transfer,     \* [state, blocked]: the Form 13 transfer
  advance,      \* [state, goal, requested, maximum]: the Form 31 advance
  paidOut,      \* sum of the advances pushed onto pastClaims
  wageBasis,    \* wage basis of the latest contribution
  posted,       \* contribution the ECR posted: {} or one
  settlement    \* "OPEN", or "CREDITED" when the final settlement was

vars == << balance, previous, current, transferred, transfer, advance, paidOut,
           wageBasis, posted, settlement >>

accounts == << balance, previous, current, transferred >>

ADVANCE_SEQUENCE == << "DRAFT", "READY", "SUBMITTED", "EPFO_PROCESSING", "CREDITED" >>

TRANSFER_SEQUENCE ==
  << "DRAFT", "READY", "SUBMITTED", "PREVIOUS_RECORD_VERIFIED", "CURRENT_RECORD_VERIFIED",
     "EPFO_PROCESSING", "BALANCE_MOVED", "COMPLETED" >>

AdvanceState == {ADVANCE_SEQUENCE[k] : k \in 1..5} \cup {"NOT_ELIGIBLE"}

TransferState == {TRANSFER_SEQUENCE[k] : k \in 1..8}

\* Variants with the suffix _Bug are the mistakes the properties are tried on:
\* no specification uses them.

-----------------------------------------------------------------------------
(* The Form 31 advance. *)

Lower(a, b) == IF a < b THEN a ELSE b

Eligible(goal) == balance > 0 /\ ServiceMonths >= RequiredMonths[goal]

MaximumEligible_Bug(goal) ==   \* not capped by the balance
  IF Eligible(goal) THEN wageBasis * Multiple[goal] ELSE 0

MaximumEligible(goal) ==
  IF Eligible(goal) THEN Lower(balance, wageBasis * Multiple[goal]) ELSE 0

EvaluateAdvancePolicy(goal, requested) ==
  [state |-> IF Eligible(goal) THEN "READY" ELSE "NOT_ELIGIBLE",
   goal |-> goal,
   requested |-> Lower(requested, MaximumEligible(goal)),
   maximum |-> MaximumEligible(goal)]

\* Choosing a purpose replaces the advance, whatever state it is in.
SetAdvanceGoal(goal, requested) ==
  /\ advance' = EvaluateAdvancePolicy(goal, requested)
  /\ UNCHANGED << accounts, transfer, paidOut, wageBasis, posted, settlement >>

IsNextAdvanceState(from, to) ==
  \E k \in 1..4 : ADVANCE_SEQUENCE[k] = from /\ ADVANCE_SEQUENCE[k + 1] = to

MaySubmit_Bug(a) == a.requested > 0   \* the ceiling is only advice

\* What transitionAdvance demands of an advance that is to be submitted.
MaySubmit(a) == a.requested > 0 /\ a.requested <= a.maximum

\* The check that a draft is eligible is left out: no command makes an advance a draft.
AdvanceMayMove(a, next) ==
  /\ IsNextAdvanceState(a.state, next)
  /\ next = "SUBMITTED" => MaySubmit(a)

Asking(requested) == [advance EXCEPT !.requested = requested]

SubmitAdvance(requested) ==
  /\ AdvanceMayMove(Asking(requested), "SUBMITTED")
  /\ advance' = [Asking(requested) EXCEPT !.state = "SUBMITTED"]
  /\ UNCHANGED << accounts, transfer, paidOut, wageBasis, posted, settlement >>

CreditAdvance ==
  /\ balance' = balance - advance.requested
  /\ paidOut' = paidOut + advance.requested

\* Both the TRANSITION and the ADVANCE call of the route; nothing but the
\* sequence limits which of them comes when.
TransitionAdvance(next) ==
  /\ AdvanceMayMove(advance, next)
  /\ advance' = [advance EXCEPT !.state = next]
  /\ IF next = "CREDITED" THEN CreditAdvance ELSE UNCHANGED << balance, paidOut >>
  /\ UNCHANGED << previous, current, transferred, transfer, wageBasis, posted, settlement >>

-----------------------------------------------------------------------------
(* The Form 13 transfer. *)

IsNextTransferState(from, to) ==
  \E k \in 1..7 : TRANSFER_SEQUENCE[k] = from /\ TRANSFER_SEQUENCE[k + 1] = to

ResolveTransferBlocker ==
  /\ transfer.state = "DRAFT"
  /\ transfer' = [state |-> "READY", blocked |-> FALSE]
  /\ UNCHANGED << accounts, advance, paidOut, wageBasis, posted, settlement >>

RecordHoldsTheAmount_Bug == previous > Unconsolidated   \* the last rupee cannot move

\* The amount of the application is what the previous record held when it was
\* drawn up.
RecordHoldsTheAmount == previous >= Unconsolidated

ApplyTransferBalanceMove_Halfway ==   \* the receiving record is forgotten
  /\ previous' = previous - Unconsolidated
  /\ transferred' = transferred + Unconsolidated
  /\ balance' = balance + Unconsolidated
  /\ UNCHANGED current

ApplyTransferBalanceMove ==
  /\ previous' = previous - Unconsolidated
  /\ transferred' = transferred + Unconsolidated
  /\ current' = current + Unconsolidated
  /\ balance' = balance + Unconsolidated

\* What transitionTransfer and applyTransferBalanceMove demand; when either throws,
\* nothing is saved.
TransferMayMove(next) ==
  /\ IsNextTransferState(transfer.state, next)
  /\ next = "READY" => ~ transfer.blocked
  /\ next = "BALANCE_MOVED" => RecordHoldsTheAmount

TransitionTransfer(next) ==
  /\ TransferMayMove(next)
  /\ transfer' = [transfer EXCEPT !.state = next]
  /\ IF next = "BALANCE_MOVED" THEN ApplyTransferBalanceMove ELSE UNCHANGED accounts
  /\ UNCHANGED << advance, paidOut, wageBasis, posted, settlement >>

-----------------------------------------------------------------------------
(* Contribution and settlement. *)

MayPost_Bug == TRUE   \* a month can be posted again

MayPost == posted = {}

\* postContributionFromEcr, once per month.
PostContribution(c) ==
  /\ MayPost
  /\ posted' = posted \cup {c}
  /\ wageBasis' = c.wage
  /\ current' = current + c.pays
  /\ balance' = balance + c.pays
  /\ UNCHANGED << previous, transferred, transfer, advance, paidOut, settlement >>

\* The last step of the settlement claim credits its amount and debits nothing.
CreditSettlement ==
  /\ settlement = "OPEN"
  /\ settlement' = "CREDITED"
  /\ UNCHANGED << accounts, transfer, advance, paidOut, wageBasis, posted >>

-----------------------------------------------------------------------------

Init ==
  /\ balance = Opening
  /\ previous = Unconsolidated
  /\ current = Opening
  /\ transferred = 0
  /\ transfer = [state |-> "DRAFT", blocked |-> TRUE]
  /\ paidOut = 0
  /\ wageBasis = OpeningWage
  /\ posted = {}
  /\ settlement = "OPEN"
  /\ advance = EvaluateAdvancePolicy(SeedGoal, SeedRequest)

Next ==
  \/ \E goal \in Goals, requested \in Amounts : SetAdvanceGoal(goal, requested)
  \/ \E requested \in Amounts : SubmitAdvance(requested)
  \/ \E next \in AdvanceState : TransitionAdvance(next)
  \/ ResolveTransferBlocker
  \/ \E next \in TransferState : TransitionTransfer(next)
  \/ \E c \in Postings : PostContribution(c)
  \/ CreditSettlement

Spec == Init /\ [][Next]_vars

\* The code schedules nothing: somebody clicks through the processing states.
\* This fairness only says that whoever submits a transfer does not walk away.
Steps(next) == TransitionTransfer(next) /\ transfer.state # "READY"

FairSpec == Spec /\ \A next \in TransferState : WF_vars(Steps(next))

-----------------------------------------------------------------------------
(* Properties. *)

\* The amounts are those the schemas admit: none of them is negative.
TypeOK ==
  /\ balance \in Nat /\ previous \in Nat /\ current \in Nat /\ transferred \in Nat
  /\ paidOut \in Nat /\ wageBasis \in Nat /\ posted \subseteq Postings
  /\ transfer \in [state : TransferState, blocked : BOOLEAN]
  /\ advance \in [state : AdvanceState, goal : Goals, requested : Nat, maximum : Nat]
  /\ settlement \in {"OPEN", "CREDITED"}

\* An advance under way is covered by the balance until it is credited, whatever
\* else arrives or leaves meanwhile: the ceiling is checked when the purpose is
\* chosen and the balance is debited much later (evaluateAdvancePolicy,
\* transitionAdvance).
AdvanceIsCovered ==
  /\ advance.state \in {"SUBMITTED", "EPFO_PROCESSING"} => advance.requested <= balance
  /\ advance.state \in {"READY", "SUBMITTED", "EPFO_PROCESSING"} =>
       advance.requested <= advance.maximum /\ advance.maximum <= balance

\* The PF balance is what the current record received less the advances paid, and
\* the records show every rupee once: at the previous employer or transferred.
BooksAgree ==
  /\ balance + paidOut = current
  /\ previous + transferred = Unconsolidated
  /\ transferred = IF transfer.state \in {"BALANCE_MOVED", "COMPLETED"} THEN Unconsolidated ELSE 0
  /\ \/ posted = {} /\ current = Opening + transferred
     \/ \E c \in Postings : posted = {c} /\ current = Opening + transferred + c.pays

\* A submitted transfer is completed: the previous record always holds the amount
\* when the moment to move it comes (applyTransferBalanceMove cannot throw).
TransferCompletes == transfer.state = "SUBMITTED" ~> transfer.state = "COMPLETED"

\* What the ledger promises: money arrives once from each source and leaves only
\* as far as it is there.
Account == INSTANCE PfAccount
  WITH Value <- [transfer |-> {Unconsolidated}, contribution |-> {c.pays : c \in Postings}],
       funds <- balance,
       awaited <- (IF transfer.state \in {"BALANCE_MOVED", "COMPLETED"} THEN {} ELSE {"transfer"})
                    \cup (IF posted = {} THEN {"contribution"} ELSE {})

ImplementsAccount == Account!AccountSpec
=============================================================================
