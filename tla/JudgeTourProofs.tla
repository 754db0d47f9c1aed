---------------------------- MODULE JudgeTourProofs ----------------------------
(***************************************************************************)
(* The walkthrough over the resolution workflow, for every scenario.  The  *)
(* composition adds nothing to the workflow, so what was proved of the     *)
(* workflow holds of it; and the rail never shows less than was done.      *)
(***************************************************************************)
EXTENDS JudgeTour, ResolutionWorkflowProofs

\* The judge's clicks and the payroll payment do not touch the document; a reset of
\* both is a reset of it (api/tour/route.ts, api/demo/route.ts).
THEOREM TourIsTheWorkflow == TourSpec => Spec
<1>1. TourInit => Init
  BY DEF TourInit
<1>2. [TourNext]_tourVars => [Next]_vars
  BY DEF TourNext, tourVars, Next, Command, vars, StartOrGo, Leave, EmployerPaysEcr, DemoResetsAll
<1> QED BY <1>1, <1>2, PTL DEF TourSpec, Spec

\* LatestOf is the largest of some steps.
LEMMA LatestIsLargest ==
  ASSUME NEW S \in SUBSET Steps, S # {}
  PROVE  LatestOf(S) \in S /\ \A j \in S : j <= LatestOf(S)
<1> USE DEF Steps
<1>1. \E i \in S : \A j \in S : j <= i
  <2>1. CASE 5 \in S
    BY <2>1
  <2>2. CASE 5 \notin S /\ 4 \in S
    BY <2>2
  <2>3. CASE {4, 5} \cap S = {} /\ 3 \in S
    BY <2>3
  <2>4. CASE {3, 4, 5} \cap S = {} /\ 2 \in S
    BY <2>4
  <2>5. CASE {2, 3, 4, 5} \cap S = {} /\ 1 \in S
    BY <2>5
  <2>6. CASE {1, 2, 3, 4, 5} \cap S = {}
    <3>1. \A j \in S : j = 0
      BY <2>6
    <3>2. PICK k \in S : TRUE
      OBVIOUS
    <3>3. k \in S /\ \A j \in S : j <= k
      BY <3>1, <3>2
    <3> QED BY <3>3
  <2> QED BY <2>1, <2>2, <2>3, <2>4, <2>5, <2>6
<1> QED BY <1>1 DEF LatestOf

OnTour == acknowledged \in Steps

Shown == {acknowledged} \cup Reached \cup (SatisfiedSteps \cap {LastStep})

\* The rail's step is the latest of those the cookie and the data take it to.
LEMMA RailStep ==
  ASSUME OnTour
  PROVE  /\ CurrentIndex \in Shown /\ CurrentIndex \in Steps
         /\ \A j \in Shown : j <= CurrentIndex
<1>1. Shown \in SUBSET Steps /\ Shown # {}
  BY DEF OnTour, Shown, Reached, SatisfiedSteps
<1> QED BY <1>1, LatestIsLargest DEF CurrentIndex, Shown

\* What is done is ticked, the rail asks for nothing that is done, and every other tick
\* is on a step the judge clicked past or that a done step follows (deriveTourProgress).
LEMMA RailCoversData == OnTour => RailShowsWhatIsDone
<1> SUFFICES ASSUME OnTour PROVE RailShowsWhatIsDone
  OBVIOUS
<1> USE DEF Steps, LastStep
<1>1. ASSUME NEW i \in SatisfiedSteps, i # 5 PROVE i + 1 <= CurrentIndex
  <2>1. i + 1 \in Steps /\ (i + 1) - 1 = i
    BY <1>1 DEF SatisfiedSteps
  <2>2. i + 1 \in Reached
    BY <1>1, <2>1 DEF Reached
  <2> QED BY <2>2, RailStep DEF Shown
<1>2. 5 \in SatisfiedSteps <=> IsComplete
  BY DEF SatisfiedSteps, IsComplete
<1>3. SatisfiedSteps \subseteq DoneSteps
  BY <1>1, <1>2, RailStep DEF DoneSteps, SatisfiedSteps
<1>4. CurrentIndex \in SatisfiedSteps => IsComplete
  BY <1>1, <1>2, RailStep
<1>5. ASSUME NEW i \in DoneSteps
      PROVE  i < acknowledged \/ \E j \in SatisfiedSteps : i <= j
  <2>1. CASE IsComplete
    BY <1>2, <1>5, <2>1 DEF DoneSteps
  <2>2. CASE ~ IsComplete
    <3>1. i < CurrentIndex /\ i \in Steps
      BY <1>5, <2>2, RailStep DEF DoneSteps
    <3>2. CASE CurrentIndex = acknowledged
      BY <3>1, <3>2
    <3>3. CASE CurrentIndex \in Reached
      <4>1. CurrentIndex - 1 \in SatisfiedSteps /\ i <= CurrentIndex - 1
        BY <3>1, <3>3, RailStep DEF Reached
      <4> QED BY <4>1
    <3>4. CASE CurrentIndex \in SatisfiedSteps
      BY <1>4, <2>2, <3>4
    <3> QED BY <3>2, <3>3, <3>4, RailStep DEF Shown
  <2> QED BY <2>1, <2>2
<1> QED BY <1>3, <1>4, <1>5 DEF RailShowsWhatIsDone

\* No command of any party reopens a defect or takes a credit back.
LEMMA CommandSatisfiesMore ==
  ASSUME Legal, Command
  PROVE  /\ ~ HasBlockingChecks(doc) => ~ HasBlockingChecks(doc')
         /\ doc.claim = "CREDITED" => doc'.claim = "CREDITED"
<1>1. doc \in Document /\ JourneyStep(doc, doc')
  BY CommandIsOutcome, CommandIsJourneyStep DEF Legal, LegalDocument
<1>2. CASE Bookkeeping(doc, doc')
  BY <1>2 DEF Bookkeeping, HasBlockingChecks, ExitRecorded, LegacyAligned
<1>3. CASE \E m : Correction(doc, m) /\ doc' = SynchronizeClaimReadiness(m)
  <2>1. OpenDefects(doc) # {} /\ doc.claim = "DRAFT"
    BY <1>3 DEF Correction
  <2>2. HasBlockingChecks(doc)
    BY <1>1, <2>1, BlockedByDefects DEF Document
  <2> QED BY <2>1, <2>2
<1>4. ASSUME NEW next \in ClaimState, NEW actor \in ActorType,
             doc' = ClaimMoved(doc, next, actor), IsNextClaimState(doc.claim, next)
      PROVE  /\ ~ HasBlockingChecks(doc) => ~ HasBlockingChecks(doc')
             /\ doc.claim = "CREDITED" => doc'.claim = "CREDITED"
  <2>1. doc'.record = doc.record
    BY <1>1, <1>4 DEF ClaimMoved, Document
  <2>2. doc.claim # "CREDITED"
    BY <1>4 DEF IsNextClaimState, CLAIM_SEQUENCE
  <2> QED BY <2>1, <2>2 DEF HasBlockingChecks, ExitRecorded, LegacyAligned
<1> QED BY <1>1, <1>2, <1>3, <1>4 DEF JourneyStep

\* The steps before the n-th are those up to its predecessor (DoneSteps).
LEMMA BeforeIsBelow == \A i, n \in Steps : i < n => i \in 0..(n - 1)
BY DEF Steps

\* If more is satisfied and the judge did not click, nothing loses its tick.
LEMMA TicksGrow ==
  ASSUME OnTour, acknowledged' = acknowledged, SatisfiedSteps \subseteq SatisfiedSteps'
  PROVE  DoneSteps \subseteq DoneSteps'
<1> USE DEF Steps, LastStep
<1>1. Shown \subseteq Shown'
  BY DEF Shown, Reached
<1>2. OnTour'
  BY DEF OnTour
<1>3. /\ CurrentIndex' \in Shown' /\ CurrentIndex' \in Steps
      /\ \A j \in Shown' : j <= CurrentIndex'
  <2>1. Shown' \in SUBSET Steps /\ Shown' # {}
    BY <1>2 DEF OnTour, Shown, Reached, SatisfiedSteps
  <2> QED BY <2>1, LatestIsLargest DEF CurrentIndex, Shown
<1>4. CurrentIndex <= CurrentIndex' /\ CurrentIndex \in Steps
  BY <1>1, <1>3, RailStep
<1>5. IsComplete => IsComplete'
  BY DEF SatisfiedSteps, IsComplete
<1>6. ASSUME NEW i \in DoneSteps PROVE i \in DoneSteps'
  <2>1. i \in Steps /\ (IsComplete \/ i < CurrentIndex)
    BY <1>4, <1>6 DEF DoneSteps
  <2>2. CASE IsComplete'
    BY <2>1, <2>2 DEF DoneSteps
  <2>3. CASE ~ IsComplete'
    <3>1. i < CurrentIndex'
      BY <1>3, <1>4, <1>5, <2>1, <2>3
    <3>2. i \in 0..(CurrentIndex' - 1)
      BY <1>3, <2>1, <3>1, BeforeIsBelow
    <3>3. DoneSteps' = 0..(CurrentIndex' - 1)
      BY <2>3 DEF DoneSteps
    <3> QED BY <3>2, <3>3, Zenon
  <2> QED BY <2>2, <2>3
<1> QED BY <1>6

-----------------------------------------------------------------------------

CookieIsStep == acknowledged \in Steps \cup {NoTour}

\* No action writes anything else into the cookie (api/tour/route.ts).
LEMMA CookieStaysStep == TourSpec => []CookieIsStep
<1>1. TourInit => CookieIsStep
  BY DEF TourInit, CookieIsStep
<1>2. CookieIsStep /\ [TourNext]_tourVars => CookieIsStep'
  BY DEF TourNext, tourVars, StartOrGo, Leave, EmployerPaysEcr, DemoResetsAll, Continue,
         CookieIsStep
<1> QED BY <1>1, <1>2, PTL DEF TourSpec

EcrPaidIsFlag == ecrPaid \in BOOLEAN

\* The cookie is always a step of the tour or absent, for every scenario under it.
THEOREM TourTypeCorrect == TourSpec => []TourTypeOK
<1>1. TourInit => EcrPaidIsFlag
  BY DEF TourInit, EcrPaidIsFlag
<1>2. EcrPaidIsFlag /\ [TourNext]_tourVars => EcrPaidIsFlag'
  BY DEF TourNext, tourVars, StartOrGo, Leave, EmployerPaysEcr, DemoResetsAll, Continue,
         EcrPaidIsFlag
<1>3. TypeOK /\ CookieIsStep /\ EcrPaidIsFlag => TourTypeOK
  BY DEF TypeOK, CookieIsStep, EcrPaidIsFlag, TourTypeOK
<1> QED BY <1>1, <1>2, <1>3, CookieStaysStep, TourIsTheWorkflow, TypeCorrect, PTL DEF TourSpec

\* judge-tour.ts: "nothing the judge does can make the rail claim less progress than
\* the data shows"; and what it claims beyond the data is what the judge clicked past or
\* what a done step follows.
THEOREM RailNeverBehind == TourSpec => []RailShowsWhatIsDone
<1>1. CookieIsStep => RailShowsWhatIsDone
  BY RailCoversData DEF OnTour, RailShowsWhatIsDone, CookieIsStep
<1> QED BY <1>1, CookieStaysStep, PTL

\* A party's step that is not a reset satisfies nothing less.
LEMMA StepSatisfiesMore ==
  ASSUME Legal, TypeOK, [TourNext]_tourVars, resets' = resets
  PROVE  SatisfiedSteps \subseteq SatisfiedSteps'
<1>1. \/ Command /\ Continue
      \/ doc' = doc /\ (ecrPaid => ecrPaid')
  <2>1. ~ DemoResetsAll
    <3>1. resets \in Nat
      BY MaxResetsAssumption DEF TypeOK
    <3> QED BY <3>1 DEF DemoResetsAll, DemoResets
  <2> QED BY <2>1 DEF TourNext, tourVars, Command, StartOrGo, Leave, EmployerPaysEcr
<1>2. /\ ~ HasBlockingChecks(doc) => ~ HasBlockingChecks(doc')
      /\ doc.claim = "CREDITED" => doc'.claim = "CREDITED"
      /\ ecrPaid => ecrPaid'
  <2>1. CASE Command /\ Continue
    BY <2>1, CommandSatisfiesMore DEF Continue
  <2>2. CASE doc' = doc /\ (ecrPaid => ecrPaid')
    BY <2>2
  <2> QED BY <1>1, <2>1, <2>2
<1>3. HasBlockingChecks(doc)' <=> HasBlockingChecks(doc')
  BY DEF HasBlockingChecks, ExitRecorded, LegacyAligned
<1> QED BY <1>2, <1>3 DEF SatisfiedSteps, StepSatisfied

\* judge-tour.ts: "scenario state can only push that forward, never back".
THEOREM TicksStay == TourSpec => DoneStaysDone
<1>1. /\ Legal /\ TypeOK /\ CookieIsStep /\ [TourNext]_tourVars
      => (acknowledged # NoTour /\ acknowledged' = acknowledged /\ resets' = resets
            => DoneSteps \subseteq DoneSteps')
  BY StepSatisfiesMore, TicksGrow DEF OnTour, CookieIsStep
<1> QED BY <1>1, CookieStaysStep, TourIsTheWorkflow, AlwaysLegal, TypeCorrect, PTL
        DEF TourSpec, DoneStaysDone
=============================================================================
