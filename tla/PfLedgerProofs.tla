---------------------------- MODULE PfLedgerProofs ----------------------------
(***************************************************************************)
(* The ledger and its two pages for any amounts, wages, purposes and       *)
(* contributions.                                                          *)
(***************************************************************************)
EXTENDS LedgerPages, TLAPS

PolicyInv ==
  /\ wageBasis > 0 /\ advance.state # "DRAFT"
  /\ advance.state = "READY" => advance.maximum > 0

BlockerInv == transfer.blocked <=> transfer.state = "DRAFT"

\* The invariant: the amounts are amounts, the advance is covered and the books
\* agree.  The balance stays above zero because of the second, and the transfer
\* finds its money because of the third.  An advance is never a draft, so READY
\* always comes with a maximum the policy worked out, which is above zero as long as
\* wages are; and a transfer is blocked for as long as it is a draft.
LedgerInv ==
  /\ TypeOK /\ AdvanceIsCovered /\ BooksAgree
  /\ PolicyInv /\ BlockerInv

\* What the two sequences allow, state by state.
LEMMA AdvanceOrder ==
  ASSUME NEW from, NEW to, IsNextAdvanceState(from, to)
  PROVE  \/ from = "DRAFT" /\ to = "READY"
         \/ from = "READY" /\ to = "SUBMITTED"
         \/ from = "SUBMITTED" /\ to = "EPFO_PROCESSING"
         \/ from = "EPFO_PROCESSING" /\ to = "CREDITED"
<1>1. PICK k \in 1..4 : ADVANCE_SEQUENCE[k] = from /\ ADVANCE_SEQUENCE[k + 1] = to
  BY DEF IsNextAdvanceState
<1>2. k = 1 \/ k = 2 \/ k = 3 \/ k = 4
  OBVIOUS
<1> QED BY <1>1, <1>2 DEF ADVANCE_SEQUENCE

LEMMA TransferOrder ==
  ASSUME NEW from, NEW to, IsNextTransferState(from, to)
  PROVE  /\ from \notin {"BALANCE_MOVED", "COMPLETED"} => to # "COMPLETED"
         /\ to = "BALANCE_MOVED" => from = "EPFO_PROCESSING"
         /\ from = "BALANCE_MOVED" => to = "COMPLETED"
         /\ to # "DRAFT" /\ (from = "DRAFT" => to = "READY")
         /\ from # "COMPLETED" /\ from \in TransferState /\ to \in TransferState
<1>1. PICK k \in 1..7 : TRANSFER_SEQUENCE[k] = from /\ TRANSFER_SEQUENCE[k + 1] = to
  BY DEF IsNextTransferState
<1>2. k = 1 \/ k = 2 \/ k = 3 \/ k = 4 \/ k = 5 \/ k = 6 \/ k = 7
  OBVIOUS
<1>3. from \in TransferState /\ to \in TransferState
  BY <1>1 DEF TransferState
<1> QED BY <1>1, <1>2, <1>3 DEF TRANSFER_SEQUENCE

LEMMA StateNames ==
  /\ {"DRAFT", "READY", "SUBMITTED", "EPFO_PROCESSING", "CREDITED", "NOT_ELIGIBLE"}
       \subseteq AdvanceState
  /\ {"DRAFT", "READY"} \subseteq TransferState
<1>1. /\ ADVANCE_SEQUENCE[1] = "DRAFT" /\ ADVANCE_SEQUENCE[2] = "READY"
      /\ ADVANCE_SEQUENCE[3] = "SUBMITTED" /\ ADVANCE_SEQUENCE[4] = "EPFO_PROCESSING"
      /\ ADVANCE_SEQUENCE[5] = "CREDITED"
  BY DEF ADVANCE_SEQUENCE
<1>2. TRANSFER_SEQUENCE[1] = "DRAFT" /\ TRANSFER_SEQUENCE[2] = "READY"
  BY DEF TRANSFER_SEQUENCE
<1> QED BY <1>1, <1>2 DEF AdvanceState, TransferState

LEMMA AdvanceStates ==
  AdvanceState =
    {"DRAFT", "READY", "SUBMITTED", "EPFO_PROCESSING", "CREDITED", "NOT_ELIGIBLE"}
<1>1. \A k \in 1..5 : k = 1 \/ k = 2 \/ k = 3 \/ k = 4 \/ k = 5
  OBVIOUS
<1>2. \A k \in 1..5 : ADVANCE_SEQUENCE[k] \in
        {"DRAFT", "READY", "SUBMITTED", "EPFO_PROCESSING", "CREDITED"}
  BY <1>1 DEF ADVANCE_SEQUENCE
<1> QED BY <1>2, StateNames DEF AdvanceState

\* The eight states of a transfer, each with the one that follows it.
LEMMA TransferStates ==
  /\ TransferState = {"DRAFT", "READY", "SUBMITTED", "PREVIOUS_RECORD_VERIFIED",
       "CURRENT_RECORD_VERIFIED", "EPFO_PROCESSING", "BALANCE_MOVED", "COMPLETED"}
  /\ \A from, to : IsNextTransferState(from, to) <=>
       << from, to >> \in
         { << "DRAFT", "READY" >>, << "READY", "SUBMITTED" >>,
           << "SUBMITTED", "PREVIOUS_RECORD_VERIFIED" >>,
           << "PREVIOUS_RECORD_VERIFIED", "CURRENT_RECORD_VERIFIED" >>,
           << "CURRENT_RECORD_VERIFIED", "EPFO_PROCESSING" >>,
           << "EPFO_PROCESSING", "BALANCE_MOVED" >>, << "BALANCE_MOVED", "COMPLETED" >> }
<1>1. /\ TRANSFER_SEQUENCE[1] = "DRAFT" /\ TRANSFER_SEQUENCE[2] = "READY"
      /\ TRANSFER_SEQUENCE[3] = "SUBMITTED"
      /\ TRANSFER_SEQUENCE[4] = "PREVIOUS_RECORD_VERIFIED"
      /\ TRANSFER_SEQUENCE[5] = "CURRENT_RECORD_VERIFIED"
      /\ TRANSFER_SEQUENCE[6] = "EPFO_PROCESSING"
      /\ TRANSFER_SEQUENCE[7] = "BALANCE_MOVED" /\ TRANSFER_SEQUENCE[8] = "COMPLETED"
  BY DEF TRANSFER_SEQUENCE
<1>2. 1..8 = {1, 2, 3, 4, 5, 6, 7, 8} /\ 1..7 = {1, 2, 3, 4, 5, 6, 7}
  OBVIOUS
<1>3. TransferState = {"DRAFT", "READY", "SUBMITTED", "PREVIOUS_RECORD_VERIFIED",
        "CURRENT_RECORD_VERIFIED", "EPFO_PROCESSING", "BALANCE_MOVED", "COMPLETED"}
  BY <1>1, <1>2 DEF TransferState
<1>4. ASSUME NEW from, NEW to
      PROVE  IsNextTransferState(from, to) <=>
               \E k \in {1, 2, 3, 4, 5, 6, 7} :
                 TRANSFER_SEQUENCE[k] = from /\ TRANSFER_SEQUENCE[k + 1] = to
  BY <1>2 DEF IsNextTransferState
<1>5. ASSUME NEW from, NEW to
      PROVE  IsNextTransferState(from, to) <=>
               \/ TRANSFER_SEQUENCE[1] = from /\ TRANSFER_SEQUENCE[2] = to
               \/ TRANSFER_SEQUENCE[2] = from /\ TRANSFER_SEQUENCE[3] = to
               \/ TRANSFER_SEQUENCE[3] = from /\ TRANSFER_SEQUENCE[4] = to
               \/ TRANSFER_SEQUENCE[4] = from /\ TRANSFER_SEQUENCE[5] = to
               \/ TRANSFER_SEQUENCE[5] = from /\ TRANSFER_SEQUENCE[6] = to
               \/ TRANSFER_SEQUENCE[6] = from /\ TRANSFER_SEQUENCE[7] = to
               \/ TRANSFER_SEQUENCE[7] = from /\ TRANSFER_SEQUENCE[8] = to
  BY <1>4
<1> QED BY <1>1, <1>3, <1>5

\* The policy offers at most the balance, and asks for at most what it offers
\* (evaluateAdvancePolicy).
LEMMA PolicyIsCovered ==
  ASSUME balance \in Nat, wageBasis \in Nat \ {0}, NEW goal \in Goals, NEW requested \in Nat
  PROVE  LET a == EvaluateAdvancePolicy(goal, requested) IN
           /\ a \in [state : AdvanceState, goal : Goals, requested : Nat, maximum : Nat]
           /\ a.requested <= a.maximum /\ a.maximum <= balance
           /\ a.state \in {"READY", "NOT_ELIGIBLE"}
           /\ a.state = "READY" => a.maximum > 0
<1>1. wageBasis * Multiple[goal] \in Nat \ {0}
  <2>1. ASSUME NEW w \in Nat, NEW m \in Nat, w > 0, m > 0
        PROVE  w * m > 0 /\ w * m \in Nat
    BY <2>1, SMT
  <2> QED BY <2>1, MoneyAssumption
<1>2. /\ MaximumEligible(goal) \in Nat /\ MaximumEligible(goal) <= balance
      /\ Eligible(goal) => MaximumEligible(goal) > 0
  <2> DEFINE ceiling == wageBasis * Multiple[goal]
  <2>1. ceiling \in Nat \ {0}
    BY <1>1
  <2> HIDE DEF ceiling
  <2>2. /\ Lower(balance, ceiling) \in Nat /\ Lower(balance, ceiling) <= balance
        /\ balance > 0 => Lower(balance, ceiling) > 0
    BY <2>1 DEF Lower
  <2>3. MaximumEligible(goal) = IF Eligible(goal) THEN Lower(balance, ceiling) ELSE 0
    BY DEF MaximumEligible, ceiling
  <2>4. Eligible(goal) => balance > 0
    BY DEF Eligible
  <2> QED BY <2>2, <2>3, <2>4
<1>3. \A m \in Nat : Lower(requested, m) \in Nat /\ Lower(requested, m) <= m
  BY DEF Lower
<1> QED BY <1>2, <1>3, StateNames DEF EvaluateAdvancePolicy

LEMMA InitLedger == Init => LedgerInv
<1> SUFFICES ASSUME Init
             PROVE  LedgerInv
  OBVIOUS
<1>1. balance \in Nat /\ wageBasis \in Nat \ {0} /\ SeedGoal \in Goals /\ SeedRequest \in Nat
  BY MoneyAssumption DEF Init
<1>2. /\ advance \in [state : AdvanceState, goal : Goals, requested : Nat, maximum : Nat]
      /\ advance.requested <= advance.maximum /\ advance.maximum <= balance
      /\ advance.state \in {"READY", "NOT_ELIGIBLE"}
      /\ advance.state = "READY" => advance.maximum > 0
  BY <1>1, PolicyIsCovered DEF Init
<1>3. TypeOK /\ AdvanceIsCovered
  BY <1>1, <1>2, StateNames, MoneyAssumption DEF Init, TypeOK, AdvanceIsCovered
<1>4. BooksAgree
  BY MoneyAssumption DEF Init, BooksAgree
<1>5. PolicyInv /\ BlockerInv
  BY <1>1, <1>2 DEF Init, PolicyInv, BlockerInv
<1> QED BY <1>3, <1>4, <1>5 DEF LedgerInv

\* The advance leaves the records and the other flows alone, so its steps keep
\* the books if what leaves the balance is paid out.
LEMMA AdvanceBooks ==
  ASSUME LedgerInv,
         UNCHANGED << previous, current, transferred, transfer, wageBasis, posted, settlement >>,
         balance' \in Nat, paidOut' \in Nat, balance' + paidOut' = balance + paidOut,
         advance' \in [state : AdvanceState, goal : Goals, requested : Nat, maximum : Nat]
  PROVE  TypeOK' /\ BooksAgree' /\ BlockerInv'
<1>1. TypeOK'
  BY DEF LedgerInv, TypeOK
<1>2. BooksAgree' /\ BlockerInv'
  BY DEF LedgerInv, BooksAgree, BlockerInv
<1> QED BY <1>1, <1>2

\* Choosing a purpose, submitting and stepping the advance.
LEMMA AdvanceKeeps ==
  ASSUME LedgerInv,
         \/ \E goal \in Goals, requested \in Amounts : SetAdvanceGoal(goal, requested)
         \/ \E requested \in Amounts : SubmitAdvance(requested)
         \/ \E next \in AdvanceState : TransitionAdvance(next)
  PROVE  LedgerInv' /\ balance' \in 0..balance /\ UNCHANGED << transfer, posted >>
<1>0. /\ balance \in Nat /\ wageBasis \in Nat \ {0} /\ paidOut \in Nat
      /\ advance \in [state : AdvanceState, goal : Goals, requested : Nat, maximum : Nat]
      /\ advance.requested \in Nat /\ advance.maximum \in Nat
  BY DEF LedgerInv, TypeOK, PolicyInv
<1>1. ASSUME NEW goal \in Goals, NEW requested \in Amounts, SetAdvanceGoal(goal, requested)
      PROVE  LedgerInv' /\ balance' \in 0..balance /\ UNCHANGED << transfer, posted >>
  <2>1. requested \in Nat
    BY MoneyAssumption
  <2>2. /\ advance' \in [state : AdvanceState, goal : Goals, requested : Nat, maximum : Nat]
        /\ advance'.requested <= advance'.maximum /\ advance'.maximum <= balance
        /\ advance'.state \in {"READY", "NOT_ELIGIBLE"}
        /\ advance'.state = "READY" => advance'.maximum > 0
    BY <1>0, <1>1, <2>1, PolicyIsCovered DEF SetAdvanceGoal
  <2>3. UNCHANGED << balance, paidOut, previous, current, transferred, transfer, wageBasis, posted,
                     settlement >>
    BY <1>1 DEF SetAdvanceGoal, accounts
  <2>4. TypeOK' /\ BooksAgree' /\ BlockerInv'
    BY <1>0, <2>2, <2>3, AdvanceBooks
  <2>5. AdvanceIsCovered' /\ PolicyInv'
    BY <1>0, <2>2, <2>3 DEF AdvanceIsCovered, PolicyInv
  <2> QED BY <1>0, <2>3, <2>4, <2>5 DEF LedgerInv
<1>2. ASSUME NEW requested \in Amounts, SubmitAdvance(requested)
      PROVE  LedgerInv' /\ balance' \in 0..balance /\ UNCHANGED << transfer, posted >>
  <2>1. requested \in Nat
    BY MoneyAssumption
  <2>2. /\ advance' = [advance EXCEPT !.state = "SUBMITTED", !.requested = requested]
        /\ requested <= advance.maximum /\ advance.maximum <= balance
    <3>1. /\ Asking(requested).requested = requested
          /\ Asking(requested).maximum = advance.maximum
          /\ Asking(requested).state = advance.state
          /\ [Asking(requested) EXCEPT !.state = "SUBMITTED"] =
               [advance EXCEPT !.state = "SUBMITTED", !.requested = requested]
      BY <1>0, <2>1 DEF Asking
    <3>2. AdvanceMayMove(Asking(requested), "SUBMITTED")
      BY <1>2 DEF SubmitAdvance
    <3>3. advance.state = "READY" /\ requested <= advance.maximum
      BY <3>1, <3>2, AdvanceOrder DEF AdvanceMayMove, MaySubmit
    <3> QED BY <1>2, <3>1, <3>3 DEF SubmitAdvance, LedgerInv, AdvanceIsCovered
  <2>3. /\ advance' \in [state : AdvanceState, goal : Goals, requested : Nat, maximum : Nat]
        /\ advance'.requested = requested /\ advance'.maximum = advance.maximum
        /\ advance'.state = "SUBMITTED"
    BY <1>0, <2>1, <2>2, StateNames
  <2>4. UNCHANGED << balance, paidOut, previous, current, transferred, transfer, wageBasis, posted,
                     settlement >>
    BY <1>2 DEF SubmitAdvance, accounts
  <2>5. TypeOK' /\ BooksAgree' /\ BlockerInv'
    BY <1>0, <2>3, <2>4, AdvanceBooks
  <2>6. AdvanceIsCovered' /\ PolicyInv'
    <3>1. requested <= balance
      BY <1>0, <2>1, <2>2
    <3> QED BY <1>0, <2>2, <2>3, <2>4, <3>1 DEF AdvanceIsCovered, PolicyInv
  <2> QED BY <1>0, <2>4, <2>5, <2>6 DEF LedgerInv
<1>3. ASSUME NEW next \in AdvanceState, TransitionAdvance(next)
      PROVE  LedgerInv' /\ balance' \in 0..balance /\ UNCHANGED << transfer, posted >>
  <2>1. /\ advance' = [advance EXCEPT !.state = next]
        /\ IsNextAdvanceState(advance.state, next)
        /\ UNCHANGED << previous, current, transferred, transfer, wageBasis, posted, settlement >>
    BY <1>3 DEF TransitionAdvance, AdvanceMayMove
  <2>2. /\ advance' \in [state : AdvanceState, goal : Goals, requested : Nat, maximum : Nat]
        /\ advance'.requested = advance.requested /\ advance'.maximum = advance.maximum
        /\ advance'.state = next
    BY <1>0, <2>1
  <2>3. \/ advance.state = "READY" /\ next = "SUBMITTED"
        \/ advance.state = "SUBMITTED" /\ next = "EPFO_PROCESSING"
        \/ advance.state = "EPFO_PROCESSING" /\ next = "CREDITED"
    BY <2>1, AdvanceOrder DEF LedgerInv, PolicyInv
  <2>4. /\ advance.requested <= advance.maximum /\ advance.maximum <= balance
        /\ advance.requested <= balance
    BY <1>0, <2>3 DEF LedgerInv, AdvanceIsCovered
  <2>5. /\ next = "CREDITED" => /\ balance' = balance - advance.requested
                                /\ paidOut' = paidOut + advance.requested
        /\ next # "CREDITED" => UNCHANGED << balance, paidOut >>
    BY <1>3 DEF TransitionAdvance, CreditAdvance
  <2>6. balance' \in 0..balance /\ paidOut' \in Nat /\ balance' + paidOut' = balance + paidOut
    BY <1>0, <2>4, <2>5
  <2>7. TypeOK' /\ BooksAgree' /\ BlockerInv'
    BY <1>0, <2>1, <2>2, <2>6, AdvanceBooks
  <2>8. AdvanceIsCovered' /\ PolicyInv'
    BY <1>0, <2>1, <2>2, <2>3, <2>4, <2>5 DEF AdvanceIsCovered, PolicyInv
  <2> QED BY <2>1, <2>6, <2>7, <2>8 DEF LedgerInv
<1> QED BY <1>1, <1>2, <1>3

\* A flow that leaves the advance alone and takes nothing from the balance keeps
\* the advance covered.
LEMMA StaysCovered ==
  ASSUME LedgerInv, balance' \in Nat, balance' >= balance, wageBasis' > 0, UNCHANGED advance
  PROVE  AdvanceIsCovered' /\ PolicyInv'
<1>1. balance \in Nat /\ advance.requested \in Nat /\ advance.maximum \in Nat
  BY DEF LedgerInv, TypeOK
<1>2. AdvanceIsCovered'
  BY <1>1 DEF LedgerInv, AdvanceIsCovered
<1>3. PolicyInv'
  BY DEF LedgerInv, PolicyInv
<1> QED BY <1>2, <1>3

\* Removing the blocker and stepping the transfer.  Before the balance has moved
\* the previous record holds the whole amount.
LEMMA TransferKeeps ==
  ASSUME LedgerInv,
         ResolveTransferBlocker \/ \E next \in TransferState : TransitionTransfer(next)
  PROVE  /\ LedgerInv' /\ UNCHANGED posted
         /\ \/ /\ UNCHANGED balance
               /\ transfer'.state \in {"BALANCE_MOVED", "COMPLETED"}
                    <=> transfer.state \in {"BALANCE_MOVED", "COMPLETED"}
            \/ /\ balance' = balance + Unconsolidated
               /\ transfer.state \notin {"BALANCE_MOVED", "COMPLETED"}
               /\ transfer'.state \in {"BALANCE_MOVED", "COMPLETED"}
<1> DEFINE Moved == {"BALANCE_MOVED", "COMPLETED"}
<1>0. /\ balance \in Nat /\ previous \in Nat /\ current \in Nat /\ transferred \in Nat
      /\ paidOut \in Nat /\ Unconsolidated \in Nat /\ Opening \in Nat
      /\ transfer \in [state : TransferState, blocked : BOOLEAN]
      /\ balance + paidOut = current
      /\ transfer.state \notin Moved => previous = Unconsolidated /\ transferred = 0
      /\ transfer.state \in Moved => previous = 0 /\ transferred = Unconsolidated
      /\ wageBasis > 0
  BY MoneyAssumption DEF LedgerInv, TypeOK, BooksAgree, PolicyInv
<1>1. CASE ResolveTransferBlocker
  <2>1. /\ UNCHANGED << balance, previous, current, transferred, advance, paidOut, wageBasis, posted,
                       settlement >>
        /\ transfer.state = "DRAFT" /\ transfer'.state = "READY"
        /\ transfer' \in [state : TransferState, blocked : BOOLEAN] /\ ~ transfer'.blocked
    BY <1>1, StateNames DEF ResolveTransferBlocker, accounts
  <2>2. TypeOK'
    BY <2>1 DEF LedgerInv, TypeOK
  <2>3. BooksAgree'
    BY <2>1 DEF LedgerInv, BooksAgree
  <2>4. AdvanceIsCovered' /\ PolicyInv'
    BY <1>0, <2>1, StaysCovered
  <2>5. BlockerInv'
    BY <2>1 DEF BlockerInv
  <2> QED BY <2>1, <2>2, <2>3, <2>4, <2>5 DEF LedgerInv
<1>2. ASSUME NEW next \in TransferState, TransitionTransfer(next)
      PROVE  /\ LedgerInv' /\ UNCHANGED posted
             /\ \/ UNCHANGED balance /\ (transfer'.state \in Moved <=> transfer.state \in Moved)
                \/ /\ balance' = balance + Unconsolidated
                   /\ transfer.state \notin Moved /\ transfer'.state \in Moved
  <2>1. /\ transfer' = [transfer EXCEPT !.state = next]
        /\ IsNextTransferState(transfer.state, next)
        /\ UNCHANGED << advance, paidOut, wageBasis, posted, settlement >>
        /\ next = "READY" => ~ transfer.blocked
    BY <1>2 DEF TransitionTransfer, TransferMayMove
  <2>2. /\ transfer' \in [state : TransferState, blocked : BOOLEAN] /\ transfer'.state = next
        /\ transfer'.blocked = transfer.blocked
    BY <1>0, <2>1
  <2>3. /\ transfer.state \notin Moved => next # "COMPLETED"
        /\ next = "BALANCE_MOVED" => transfer.state \notin Moved
        /\ transfer.state \in Moved => next = "COMPLETED"
        /\ next # "DRAFT" /\ (transfer.state = "DRAFT" => next = "READY")
    BY <2>1, TransferOrder
  <2>4. BlockerInv'
    BY <2>1, <2>2, <2>3 DEF LedgerInv, BlockerInv
  <2>5. CASE next = "BALANCE_MOVED"
    <3>1. /\ previous' = previous - Unconsolidated /\ transferred' = transferred + Unconsolidated
          /\ current' = current + Unconsolidated /\ balance' = balance + Unconsolidated
      BY <1>2, <2>5 DEF TransitionTransfer, ApplyTransferBalanceMove
    <3>2. previous = Unconsolidated /\ transferred = 0
      BY <1>0, <2>3, <2>5
    <3>3. /\ previous' = 0 /\ transferred' = Unconsolidated /\ current' \in Nat /\ balance' \in Nat
          /\ balance' + paidOut = current' /\ balance' >= balance
      BY <1>0, <3>1, <3>2
    <3>4. TypeOK'
      BY <1>0, <2>1, <2>2, <3>3 DEF LedgerInv, TypeOK
    <3>5. BooksAgree'
      <4>1. transfer'.state \in Moved /\ previous' + transferred' = Unconsolidated
        BY <1>0, <2>2, <2>5, <3>3
      <4>2. CASE posted = {} /\ current = Opening + transferred
        BY <1>0, <2>1, <3>1, <3>2, <3>3, <4>1, <4>2 DEF BooksAgree
      <4>3. ASSUME NEW c \in Postings, posted = {c}, current = Opening + transferred + c.pays
            PROVE  BooksAgree'
        <5>1. c.pays \in Nat
          BY MoneyAssumption
        <5>2. current' = Opening + transferred' + c.pays
          BY <1>0, <3>1, <3>2, <3>3, <4>3, <5>1
        <5> QED BY <2>1, <3>3, <4>1, <4>3, <5>2 DEF BooksAgree
      <4> QED BY <4>2, <4>3 DEF LedgerInv, BooksAgree
    <3>6. AdvanceIsCovered' /\ PolicyInv'
      BY <1>0, <2>1, <3>3, StaysCovered
    <3> QED BY <2>1, <2>2, <2>3, <2>5, <2>4, <3>1, <3>4, <3>5, <3>6 DEF LedgerInv
  <2>6. CASE next # "BALANCE_MOVED"
    <3>1. UNCHANGED << balance, previous, current, transferred >>
      BY <1>2, <2>6 DEF TransitionTransfer, accounts
    <3>2. transfer'.state \in Moved <=> transfer.state \in Moved
      BY <2>2, <2>3, <2>6
    <3>3. TypeOK'
      BY <2>1, <2>2, <3>1 DEF LedgerInv, TypeOK
    <3>4. BooksAgree'
      BY <2>1, <3>1, <3>2 DEF LedgerInv, BooksAgree
    <3>5. AdvanceIsCovered' /\ PolicyInv'
      BY <1>0, <2>1, <3>1, StaysCovered
    <3> QED BY <2>1, <2>4, <3>1, <3>2, <3>3, <3>4, <3>5 DEF LedgerInv
  <2> QED BY <2>5, <2>6
<1> QED BY <1>1, <1>2

\* The contribution an ECR payment posts.
LEMMA PostKeeps ==
  ASSUME LedgerInv, NEW c \in Postings, PostContribution(c)
  PROVE  /\ LedgerInv' /\ UNCHANGED transfer
         /\ posted = {} /\ posted' # {} /\ balance' = balance + c.pays
<1>0. /\ balance \in Nat /\ current \in Nat /\ transferred \in Nat /\ paidOut \in Nat
      /\ Opening \in Nat /\ c.wage \in Nat \ {0} /\ c.pays \in Nat /\ balance + paidOut = current
  BY MoneyAssumption DEF LedgerInv, TypeOK, BooksAgree
<1>1. /\ posted = {} /\ posted' = {c} /\ wageBasis' = c.wage
      /\ current' = current + c.pays /\ balance' = balance + c.pays
      /\ UNCHANGED << previous, transferred, transfer, advance, paidOut, settlement >>
  BY DEF PostContribution, MayPost
<1>2. /\ current' \in Nat /\ balance' \in Nat /\ balance' >= balance
      /\ balance' + paidOut = current'
  BY <1>0, <1>1
<1>3. TypeOK'
  BY <1>0, <1>1, <1>2 DEF LedgerInv, TypeOK
<1>4. BooksAgree'
  <2>1. current = Opening + transferred
    BY <1>1 DEF LedgerInv, BooksAgree
  <2>2. current' = Opening + transferred' + c.pays
    BY <1>1, <2>1
  <2> QED BY <1>1, <1>2, <2>2 DEF LedgerInv, BooksAgree
<1>5. AdvanceIsCovered' /\ PolicyInv'
  BY <1>0, <1>1, <1>2, StaysCovered
<1>6. BlockerInv'
  BY <1>1 DEF LedgerInv, BlockerInv
<1> QED BY <1>1, <1>3, <1>4, <1>5, <1>6 DEF LedgerInv

\* The credit of the settlement, and a stutter.
LEMMA SettlementKeeps ==
  ASSUME LedgerInv, CreditSettlement \/ UNCHANGED vars
  PROVE  LedgerInv' /\ UNCHANGED << balance, transfer, posted >>
<1>1. /\ UNCHANGED << balance, previous, current, transferred, transfer, advance, paidOut, wageBasis,
                      posted >>
      /\ settlement' \in {"OPEN", "CREDITED"}
  BY DEF CreditSettlement, accounts, vars, LedgerInv, TypeOK
<1>2. TypeOK'
  BY <1>1 DEF LedgerInv, TypeOK
<1>3. BooksAgree'
  BY <1>1 DEF LedgerInv, BooksAgree
<1>4. AdvanceIsCovered' /\ PolicyInv'
  BY <1>1 DEF LedgerInv, AdvanceIsCovered, PolicyInv
<1>5. BlockerInv'
  BY <1>1 DEF LedgerInv, BlockerInv
<1> QED BY <1>1, <1>2, <1>3, <1>4, <1>5 DEF LedgerInv

LEMMA LedgerStep == LedgerInv /\ [Next]_vars => LedgerInv'
<1> SUFFICES ASSUME LedgerInv, [Next]_vars
             PROVE  LedgerInv'
  OBVIOUS
<1>1. CASE \/ \E goal \in Goals, requested \in Amounts : SetAdvanceGoal(goal, requested)
           \/ \E requested \in Amounts : SubmitAdvance(requested)
           \/ \E next \in AdvanceState : TransitionAdvance(next)
  BY <1>1, AdvanceKeeps
<1>2. CASE ResolveTransferBlocker \/ \E next \in TransferState : TransitionTransfer(next)
  BY <1>2, TransferKeeps
<1>3. CASE \E c \in Postings : PostContribution(c)
  BY <1>3, PostKeeps
<1>4. CASE CreditSettlement \/ UNCHANGED vars
  BY <1>4, SettlementKeeps
<1> QED BY <1>1, <1>2, <1>3, <1>4 DEF Next

\* A transfer that is not a draft and not completed has a step the service accepts; the
\* previous record still holds the amount when it is to move.
LEMMA TransferGoesOn ==
  ASSUME LedgerInv, transfer.state \notin {"DRAFT", "COMPLETED"}
  PROVE  \E next \in TransferState : TransferMayMove(next)
<1>1. transfer.state \in TransferState
  BY DEF LedgerInv, TypeOK
<1>2. previous = Unconsolidated \/ transfer.state \in {"BALANCE_MOVED", "COMPLETED"}
  BY MoneyAssumption DEF LedgerInv, TypeOK, BooksAgree
<1>3. RecordHoldsTheAmount \/ transfer.state \in {"BALANCE_MOVED", "COMPLETED"}
  BY <1>2, MoneyAssumption DEF RecordHoldsTheAmount
<1>4. PICK next \in TransferState : IsNextTransferState(transfer.state, next)
  BY <1>1, TransferStates
<1>5. next # "READY" /\ (next = "BALANCE_MOVED" => transfer.state = "EPFO_PROCESSING")
  BY <1>4, TransferOrder, TransferStates
<1> QED BY <1>3, <1>4, <1>5 DEF TransferMayMove

-----------------------------------------------------------------------------

\* At every moment the ledger is in order.
THEOREM LedgerAlwaysInOrder == Spec => []LedgerInv
<1> QED BY InitLedger, LedgerStep, PTL DEF Spec

\* The amounts are amounts: nothing the flows do makes a balance negative.
THEOREM LedgerTypeCorrect == Spec => []TypeOK
<1>1. LedgerInv => TypeOK
  BY DEF LedgerInv
<1> QED BY <1>1, LedgerAlwaysInOrder, PTL

\* An advance under way is covered by the balance, for any wage, multiple, amount
\* and contribution (transitionAdvance never overdraws).
THEOREM AdvanceAlwaysCovered == Spec => []AdvanceIsCovered
<1>1. LedgerInv => AdvanceIsCovered
  BY DEF LedgerInv
<1> QED BY <1>1, LedgerAlwaysInOrder, PTL

\* The balance, the two records and the passbook's advances agree at every moment.
THEOREM BooksAlwaysAgree == Spec => []BooksAgree
<1>1. LedgerInv => BooksAgree
  BY DEF LedgerInv
<1> QED BY <1>1, LedgerAlwaysInOrder, PTL

\* A rounded amount lies less than a rupee above the amount (Math.round).
LEMMA RoundUp == ASSUME NEW p \in Nat PROVE Round(p) < p + Rupee
<1> DEFINE q == (2 * p + Rupee) \div (2 * Rupee)
<1>1. Rupee \in Nat /\ Rupee > 0 /\ 2 * p + Rupee \in Nat /\ 2 * Rupee \in Nat /\ 2 * Rupee > 0
  BY RupeeAssumption
<1>2. q \in Nat /\ (2 * Rupee) * q <= 2 * p + Rupee
  <2>1. \A a, b \in Nat : b > 0 => a \div b \in Nat /\ b * (a \div b) <= a
    OBVIOUS
  <2> QED BY <1>1, <2>1
<1>3. (2 * Rupee) * q = 2 * (q * Rupee) /\ q * Rupee \in Nat
  <2>1. \A a, b \in Nat : (2 * b) * a = 2 * (a * b) /\ a * b \in Nat
    OBVIOUS
  <2> QED BY <1>1, <1>2, <2>1
<1>4. q * Rupee < p + Rupee
  <2> DEFINE r == q * Rupee
  <2>1. r \in Nat /\ 2 * r <= 2 * p + Rupee
    BY <1>2, <1>3
  <2> HIDE DEF r
  <2>2. r < p + Rupee
    BY <1>1, <2>1
  <2> QED BY <2>2 DEF r
<1> QED BY <1>4 DEF Round

\* For any amounts, wages, purposes and contributions both pages always show a way on.
\* The advance form's amounts are accepted exactly up to the maximum: what it opens with
\* is refused when rounding to rupees lifts it above, by less than a rupee
\* (advance-form.tsx, transitionAdvance).  The figure above the form is covered by the
\* balance, and the transfer page says what the two records hold.
THEOREM PagesAlwaysGoOn == Spec => []LedgerPagesGoOn
<1>1. LedgerInv => LedgerPagesGoOn
  <2> SUFFICES ASSUME LedgerInv
               PROVE  LedgerPagesGoOn
    OBVIOUS
  <2>0. /\ balance \in Nat /\ previous \in Nat /\ transferred \in Nat /\ Unconsolidated \in Nat
        /\ advance \in [state : AdvanceState, goal : Goals, requested : Nat, maximum : Nat]
        /\ advance.requested \in Nat /\ advance.maximum \in Nat
        /\ transfer \in [state : TransferState, blocked : BOOLEAN]
    BY MoneyAssumption DEF LedgerInv, TypeOK
  <2>1. \A k \in 1..4 : IsNextAdvanceState(ADVANCE_SEQUENCE[k], ADVANCE_SEQUENCE[k + 1])
    BY DEF IsNextAdvanceState
  <2>2. /\ IsNextAdvanceState("READY", "SUBMITTED")
        /\ IsNextAdvanceState("SUBMITTED", "EPFO_PROCESSING")
        /\ IsNextAdvanceState("EPFO_PROCESSING", "CREDITED")
    BY <2>1 DEF ADVANCE_SEQUENCE
  <2>3. ASSUME NEW a, advance.state = "READY"
        PROVE  AdvanceMayMove(Asking(a), "SUBMITTED") <=> a > 0 /\ a <= advance.maximum
    <3>1. /\ Asking(a).requested = a /\ Asking(a).maximum = advance.maximum
          /\ Asking(a).state = "READY"
      BY <2>0, <2>3 DEF Asking
    <3> QED BY <2>2, <3>1 DEF AdvanceMayMove, MaySubmit
  <2>4. \A a \in AdvanceSubmitForm :
          a <= advance.maximum <=> AdvanceMayMove(Asking(a), "SUBMITTED")
    BY <2>3 DEF AdvanceSubmitForm
  <2>5. SimulateProcessing => \E next \in AdvanceState : AdvanceMayMove(advance, next)
    <3>1. advance.state = "SUBMITTED" => AdvanceMayMove(advance, "EPFO_PROCESSING")
      BY <2>2 DEF AdvanceMayMove
    <3>2. advance.state = "EPFO_PROCESSING" => AdvanceMayMove(advance, "CREDITED")
      BY <2>2 DEF AdvanceMayMove
    <3> QED BY <3>1, <3>2, StateNames DEF SimulateProcessing
  <2>6. ASSUME advance.state = "READY"
        PROVE  /\ AdvanceMayMove(Asking(advance.maximum), "SUBMITTED")
               /\ Prefilled < advance.maximum + Rupee /\ AnchorAmount <= balance
    <3>1. /\ 0 < advance.maximum /\ advance.maximum <= balance
          /\ advance.requested <= advance.maximum
      BY <2>6 DEF LedgerInv, PolicyInv, AdvanceIsCovered
    <3>2. AnchorAmount <= balance
      BY <2>0, <2>6, <3>1 DEF AnchorAmount
    <3>3. AdvanceMayMove(Asking(advance.maximum), "SUBMITTED")
      BY <2>0, <2>3, <2>6, <3>1
    <3> QED BY <2>0, <3>2, <3>3, RoundUp DEF Prefilled
  <2>7. advance.state # "CREDITED" => GoalPicker # {} \/ SimulateProcessing
    <3>1. advance.state \in {"DRAFT", "READY", "SUBMITTED", "EPFO_PROCESSING", "CREDITED",
                            "NOT_ELIGIBLE"}
      BY <2>0, AdvanceStates
    <3> QED BY <3>1, MoneyAssumption DEF GoalPicker, IsPreSubmission, SimulateProcessing
  <2>8. transfer.state # "COMPLETED" =>
          \/ "RESOLVE_BLOCKER" \in TransferAction /\ transfer.state = "DRAFT"
          \/ "ADVANCE" \in TransferAction /\ \E next \in TransferState : TransferMayMove(next)
    BY TransferGoesOn DEF TransferAction, LedgerInv, BlockerInv
  <2>9. previous = IF IncludesTheTransfer THEN 0 ELSE Unconsolidated
    BY <2>0 DEF LedgerInv, BooksAgree, IncludesTheTransfer
  <2> QED BY <2>4, <2>5, <2>6, <2>7, <2>8, <2>9 DEF LedgerPagesGoOn
<1> QED BY <1>1, LedgerAlwaysInOrder, PTL

\* The fairness of FairSpec for one step, with what the services demand of the step in
\* the place of ENABLED.
SteppedFairly(next) ==
  \/ []<>~ (TransferMayMove(next) /\ transfer.state # "READY")
  \/ []<><< Steps(next) >>_vars

LeadsOn(from, to) == transfer.state = from ~> transfer.state = to

\* A transfer under way leaves its state for the next one: until then the services accept
\* the step and no other step of the ledger takes the transfer elsewhere.
LEMMA TransferStepHappens ==
  ASSUME NEW CONSTANT from, NEW CONSTANT to, IsNextTransferState(from, to),
         from \notin {"DRAFT", "READY"}
  PROVE  Spec /\ SteppedFairly(to) => LeadsOn(from, to)
<1> DEFINE At(state) == transfer.state = state
<1>0. /\ from # to /\ from # "COMPLETED" /\ to # "READY" /\ from \notin {"DRAFT", "READY"}
      /\ to \in TransferState
      /\ \A next : IsNextTransferState(from, next) => next = to
      /\ to = "BALANCE_MOVED" => from \notin {"BALANCE_MOVED", "COMPLETED"}
  <2>1. /\ from # to /\ from # "COMPLETED" /\ to # "READY"
        /\ \A next : IsNextTransferState(from, next) => next = to
    BY TransferStates
  <2>2. to \in TransferState /\ (to = "BALANCE_MOVED" => from = "EPFO_PROCESSING")
    BY TransferOrder
  <2> QED BY <2>1, <2>2
<1>1. LedgerInv /\ At(from) => TransferMayMove(to) /\ transfer.state # "READY"
  <2> SUFFICES ASSUME LedgerInv, At(from)
               PROVE  TransferMayMove(to)
    BY <1>0
  <2>1. to = "BALANCE_MOVED" => previous = Unconsolidated
    BY <1>0, MoneyAssumption DEF LedgerInv, TypeOK, BooksAgree
  <2> QED BY <1>0, <2>1, MoneyAssumption DEF TransferMayMove, RecordHoldsTheAmount
<1>2. LedgerInv /\ At(from) /\ [Next]_vars => At(from)' \/ At(to)'
  <2> SUFFICES ASSUME LedgerInv, At(from), [Next]_vars
               PROVE  At(from)' \/ At(to)'
    OBVIOUS
  <2>1. CASE UNCHANGED transfer
    BY <2>1
  <2>2. ASSUME NEW next \in TransferState, TransitionTransfer(next)
        PROVE  At(to)'
    BY <1>0, <2>2 DEF TransitionTransfer, TransferMayMove, LedgerInv, TypeOK
  <2>3. ~ ResolveTransferBlocker
    BY <1>0 DEF ResolveTransferBlocker
  <2> QED BY <2>1, <2>2, <2>3
        DEF Next, SetAdvanceGoal, SubmitAdvance, TransitionAdvance, PostContribution,
            CreditSettlement, vars
<1>3. LedgerInv /\ << Steps(to) >>_vars => At(to)'
  BY DEF Steps, TransitionTransfer, LedgerInv, TypeOK
<1> HIDE DEF At
<1>4. Spec /\ SteppedFairly(to) => (At(from) ~> At(to))
  BY <1>1, <1>2, <1>3, LedgerAlwaysInOrder, PTL DEF Spec, SteppedFairly
<1> QED BY <1>4 DEF At, LeadsOn

\* A submitted transfer is completed if whoever submitted it keeps stepping it: the five
\* steps follow one another whatever advances, contributions and settlements come between.
THEOREM TransfersComplete ==
  Spec /\ (\A next \in TransferState : SteppedFairly(next)) => TransferCompletes
<1> DEFINE Fair == \A next \in TransferState : SteppedFairly(next)
<1>1. Spec /\ Fair => LeadsOn("SUBMITTED", "PREVIOUS_RECORD_VERIFIED")
  <2>1. Fair => SteppedFairly("PREVIOUS_RECORD_VERIFIED")
    BY TransferStates
  <2>2. IsNextTransferState("SUBMITTED", "PREVIOUS_RECORD_VERIFIED")
    BY TransferStates
  <2> QED BY <2>1, <2>2, TransferStepHappens
<1>2. Spec /\ Fair => LeadsOn("PREVIOUS_RECORD_VERIFIED", "CURRENT_RECORD_VERIFIED")
  <2>1. Fair => SteppedFairly("CURRENT_RECORD_VERIFIED")
    BY TransferStates
  <2>2. IsNextTransferState("PREVIOUS_RECORD_VERIFIED", "CURRENT_RECORD_VERIFIED")
    BY TransferStates
  <2> QED BY <2>1, <2>2, TransferStepHappens
<1>3. Spec /\ Fair => LeadsOn("CURRENT_RECORD_VERIFIED", "EPFO_PROCESSING")
  <2>1. Fair => SteppedFairly("EPFO_PROCESSING")
    BY TransferStates
  <2>2. IsNextTransferState("CURRENT_RECORD_VERIFIED", "EPFO_PROCESSING")
    BY TransferStates
  <2> QED BY <2>1, <2>2, TransferStepHappens
<1>4. Spec /\ Fair => LeadsOn("EPFO_PROCESSING", "BALANCE_MOVED")
  <2>1. Fair => SteppedFairly("BALANCE_MOVED")
    BY TransferStates
  <2>2. IsNextTransferState("EPFO_PROCESSING", "BALANCE_MOVED")
    BY TransferStates
  <2> QED BY <2>1, <2>2, TransferStepHappens
<1>5. Spec /\ Fair => LeadsOn("BALANCE_MOVED", "COMPLETED")
  <2>1. Fair => SteppedFairly("COMPLETED")
    BY TransferStates
  <2>2. IsNextTransferState("BALANCE_MOVED", "COMPLETED")
    BY TransferStates
  <2> QED BY <2>1, <2>2, TransferStepHappens
<1> HIDE DEF Fair
<1>6. Spec /\ Fair => TransferCompletes
  BY <1>1, <1>2, <1>3, <1>4, <1>5, PTL DEF TransferCompletes, LeadsOn
<1> QED BY <1>6 DEF Fair

\* Every step of the ledger is a step of the abstract account: the transfer and
\* the contribution each pay in once, an advance takes what is there, and the
\* rest is invisible to it.
THEOREM LedgerImplementsAccount == Spec => ImplementsAccount
<1> DEFINE Moved == {"BALANCE_MOVED", "COMPLETED"}
           Value == [transfer |-> {Unconsolidated}, contribution |-> {c.pays : c \in Postings}]
           awaited == (IF transfer.state \in Moved THEN {} ELSE {"transfer"})
                        \cup (IF posted = {} THEN {"contribution"} ELSE {})
<1>1. DOMAIN Value = {"transfer", "contribution"}
  OBVIOUS
<1>2. Init => Account!AccountInit
  BY <1>1 DEF Init, Account!AccountInit
<1>3. LedgerInv /\ [Next]_vars => [Account!AccountNext]_<< balance, awaited >>
  <2> SUFFICES ASSUME LedgerInv, [Next]_vars
               PROVE  Account!AccountNext \/ UNCHANGED << balance, awaited >>
    OBVIOUS
  <2>0. balance \in Nat
    BY DEF LedgerInv, TypeOK
  <2>1. CASE \/ \E goal \in Goals, requested \in Amounts : SetAdvanceGoal(goal, requested)
             \/ \E requested \in Amounts : SubmitAdvance(requested)
             \/ \E next \in AdvanceState : TransitionAdvance(next)
    <3>1. balance' \in 0..balance /\ UNCHANGED << transfer, posted >>
      BY <2>1, AdvanceKeeps
    <3> QED BY <3>1 DEF Account!AccountNext, Account!Withdraw
  <2>2. CASE ResolveTransferBlocker \/ \E next \in TransferState : TransitionTransfer(next)
    <3>1. UNCHANGED posted
      BY <2>2, TransferKeeps
    <3>2. CASE UNCHANGED balance /\ (transfer'.state \in Moved <=> transfer.state \in Moved)
      <4>1. UNCHANGED << balance, awaited >>
        BY <3>1, <3>2
      <4> QED BY <4>1
    <3>3. CASE /\ balance' = balance + Unconsolidated
               /\ transfer.state \notin Moved /\ transfer'.state \in Moved
      <4>1. "transfer" \in awaited /\ awaited' = awaited \ {"transfer"}
        BY <3>1, <3>3
      <4>2. Account!Receive("transfer")
        BY <3>3, <4>1 DEF Account!Receive
      <4> QED BY <1>1, <4>2 DEF Account!AccountNext
    <3> QED BY <2>2, <3>2, <3>3, TransferKeeps
  <2>3. CASE \E c \in Postings : PostContribution(c)
    <3>1. PICK c \in Postings : PostContribution(c)
      BY <2>3
    <3>2. UNCHANGED transfer /\ posted = {} /\ posted' # {} /\ balance' = balance + c.pays
      BY <3>1, PostKeeps
    <3>3. "contribution" \in awaited /\ awaited' = awaited \ {"contribution"}
      BY <3>2
    <3>4. Account!Receive("contribution")
      BY <3>2, <3>3 DEF Account!Receive
    <3> QED BY <1>1, <3>4 DEF Account!AccountNext
  <2>4. CASE CreditSettlement \/ UNCHANGED vars
    <3>1. UNCHANGED << balance, transfer, posted >>
      BY <2>4, SettlementKeeps
    <3> QED BY <3>1
  <2> QED BY <2>1, <2>2, <2>3, <2>4 DEF Next
<1> QED BY <1>2, <1>3, LedgerAlwaysInOrder, PTL DEF Spec, ImplementsAccount, Account!AccountSpec
=============================================================================
