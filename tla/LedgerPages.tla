------------------------------ MODULE LedgerPages ------------------------------
(***************************************************************************)
(* The two pages a member moves money from: the Form 31 page, where the    *)
(* form opens with the maximum rounded to rupees, and the Form 13 page.    *)
(* Both are computed from the ledger whenever they are shown; the services *)
(* have the last word when a button is clicked.                            *)
(***************************************************************************)
EXTENDS PfLedger

CONSTANT Rupee   \* paise in a rupee

ASSUME RupeeAssumption == Rupee \in Nat \ {0}

-----------------------------------------------------------------------------
(* Form 31. *)

IsPreSubmission == advance.state \in {"DRAFT", "READY", "NOT_ELIGIBLE"}

\* The purposes that can be picked: all of them, until an amount was submitted.
GoalPicker == IF IsPreSubmission THEN Goals ELSE {}

\* Math.round: a half goes up.
Round(paise) == ((2 * paise + Rupee) \div (2 * Rupee)) * Rupee

\* What the amount field holds when the form opens.
Prefilled == Round(advance.maximum)

\* The amounts the submit button sends: what was typed, if it is positive.
AdvanceSubmitForm ==
  IF advance.state = "READY" THEN {a \in Amounts \cup {Prefilled} : a > 0} ELSE {}

\* The button that moves an advance through EPFO.
SimulateProcessing == advance.state \in {"SUBMITTED", "EPFO_PROCESSING"}

\* The large figure; the seeded advance is the only one that asks for an amount before it
\* is submitted.
AnchorAmount ==
  IF advance.state \in {"DRAFT", "NOT_ELIGIBLE"} \/ advance.requested = 0
    THEN advance.maximum
    ELSE advance.requested

-----------------------------------------------------------------------------
(* Form 13. *)

TransferAction_Bug ==   \* the last stages are taken for the end
  IF transfer.state = "DRAFT" /\ transfer.blocked THEN {"RESOLVE_BLOCKER"}
  ELSE IF transfer.state \in {"BALANCE_MOVED", "COMPLETED"} THEN {} ELSE {"ADVANCE"}

\* The page's one button.
TransferAction ==
  IF transfer.state = "DRAFT" /\ transfer.blocked THEN {"RESOLVE_BLOCKER"}
  ELSE IF transfer.state = "COMPLETED" THEN {} ELSE {"ADVANCE"}

IncludesTheTransfer == transfer.state \in {"BALANCE_MOVED", "COMPLETED"}

-----------------------------------------------------------------------------
(* Properties. *)

\* An unfinished application always shows a way on, and a button that takes no amount has
\* a step behind it.  Of the amounts the advance form can send, those up to the maximum
\* are accepted, the maximum itself among them, and those above it are refused.  What the
\* form opens with may be one of these: rounding to rupees can lift it above the maximum,
\* though by less than a rupee.  The figure above the form never exceeds what the member
\* has, and the transfer page says of the two records what they hold.  The services check all of it again, against a
\* ledger that contributions, advances and the transfer have moved since the amounts were
\* worked out (advance and transfer pages against transitionAdvance and transitionTransfer).
LedgerPagesGoOn ==
  /\ \A a \in AdvanceSubmitForm :
       a <= advance.maximum <=> AdvanceMayMove(Asking(a), "SUBMITTED")
  /\ SimulateProcessing => \E next \in AdvanceState : AdvanceMayMove(advance, next)
  /\ advance.state = "READY" =>
       /\ AdvanceMayMove(Asking(advance.maximum), "SUBMITTED")
       /\ Prefilled < advance.maximum + Rupee /\ AnchorAmount <= balance
  /\ advance.state # "CREDITED" =>
       GoalPicker # {} \/ SimulateProcessing
  /\ transfer.state # "COMPLETED" =>
       \/ "RESOLVE_BLOCKER" \in TransferAction /\ transfer.state = "DRAFT"
       \/ "ADVANCE" \in TransferAction /\ \E next \in TransferState : TransferMayMove(next)
  /\ previous = IF IncludesTheTransfer THEN 0 ELSE Unconsolidated
=============================================================================
