------------------------------ MODULE JudgeTour ------------------------------
(***************************************************************************)
(* The guided walkthrough over the resolution workflow.  The judge's       *)
(* cookie holds how far they clicked; the document says what has happened; *)
(* the rail they see is derived from both whenever a page is rendered.     *)
(* The two scenarios of the tour share one document: the payroll file that *)
(* pays the missing contribution (EcrFile says how) and the claim.         *)
(***************************************************************************)
EXTENDS ResolutionWorkflow, Integers

VARIABLES
  acknowledged,   \* the walkthrough cookie: a step, or NoTour
  ecrPaid         \* the payroll file is paid

tourVars == << doc, resets, acknowledged, ecrPaid >>

NoTour == -1

\* Indexes of TOUR_STEPS.  The beats without a signal end when the judge moves on.
Steps == 0..5

LastStep == 5

\* The steps with a signal: "scenario state alone decides this step is finished".
SignalSteps == {1, 4, 5}

StepSatisfied_Bug(i) ==   \* readiness looked up in the claim's state
  \/ i = 1 /\ ecrPaid
  \/ i = 4 /\ doc.claim = "READY"
  \/ i = 5 /\ doc.claim = "CREDITED"

StepSatisfied(i) ==
  \/ i = 1 /\ ecrPaid
  \/ i = 4 /\ ~ HasBlockingChecks(doc)
  \/ i = 5 /\ doc.claim = "CREDITED"

SatisfiedSteps == {i \in Steps : StepSatisfied(i)}

LatestOf(S) == CHOOSE i \in S : \A j \in S : j <= i

Reached_Bug == SatisfiedSteps   \* the last satisfied step instead of the one after it

\* The steps the data takes the rail to.
Reached == {i \in Steps : i - 1 \in SatisfiedSteps}

\* An edited cookie of any value is clamped to a step before this, so only steps
\* matter.  The data pushes the rail on, never back.
CurrentIndex == LatestOf({acknowledged} \cup Reached \cup (SatisfiedSteps \cap {LastStep}))

IsComplete == StepSatisfied(LastStep)

DoneSteps == IF IsComplete THEN Steps ELSE 0..(CurrentIndex - 1)

-----------------------------------------------------------------------------
(* The judge. *)

StartOrGo_Bug(i) ==   \* the next step taken from the one clicked
  /\ acknowledged' = i + 1
  /\ UNCHANGED << doc, resets, ecrPaid >>

\* START and GO set the cookie, whatever the scenario says; the route does not ask
\* whether a walkthrough is on.
StartOrGo(i) ==
  /\ acknowledged' = i
  /\ UNCHANGED << doc, resets, ecrPaid >>

\* EXIT, or the four hours of the cookie have passed.
Leave ==
  /\ acknowledged' = NoTour
  /\ UNCHANGED << doc, resets, ecrPaid >>

\* The scenario under it.

Continue == UNCHANGED << acknowledged, ecrPaid >>

EmployerPaysEcr ==
  /\ ~ ecrPaid
  /\ ecrPaid' = TRUE
  /\ UNCHANGED << doc, resets, acknowledged >>

\* A reset replaces the document, the payroll file with it, and no cookie.
DemoResetsAll ==
  /\ DemoResets
  /\ ecrPaid' = FALSE
  /\ UNCHANGED acknowledged

TourInit ==
  /\ Init
  /\ acknowledged = NoTour
  /\ ecrPaid = FALSE

TourNext ==
  \/ \E i \in Steps : StartOrGo(i)
  \/ Leave
  \/ EmployerPaysEcr
  \/ \E i \in ExitIssues : MemberStartsMarkExit(i) /\ Continue
  \/ \E i \in ExitIssues : MemberCompletesMarkExit(i) /\ Continue
  \/ \E i \in LegacyIssues : MemberCreatesRequest(i) /\ Continue
  \/ \E i \in LegacyIssues : MemberResubmits(i) /\ Continue
  \/ MemberSavesNomination /\ Continue
  \/ MemberRecordsPreflight /\ Continue
  \/ MemberSubmitsClaim /\ Continue
  \/ \E r \in RequestIds, decision \in Decisions : EmployerDecides(r, decision) /\ Continue
  \/ \E next \in claimActionTargets : ProcessorAdvances(next) /\ Continue
  \/ DemoResetsAll

TourSpec == TourInit /\ [][TourNext]_tourVars

\* The walkthrough asks nothing more of anybody than the workflow does.
TourFairSpec == TourSpec /\ EngagedParties

-----------------------------------------------------------------------------
(* Properties. *)

\* The cookie is a step of the tour (api/tour/route.ts admits no other index).
TourTypeOK ==
  /\ doc \in Document /\ resets \in 0..MaxResets
  /\ acknowledged \in Steps \cup {NoTour}
  /\ ecrPaid \in BOOLEAN

\* judge-tour.ts says: "nothing the judge does can make the rail claim less progress
\* than the data shows".  What is done is shown as done, the rail asks for nothing that
\* is done, wherever the judge clicked and whoever moved the scenario; and a tick on
\* anything else has one of two reasons: the judge clicked past the step, or a later
\* step is done.  That the data then supports the tick is not said: see RailClaimsNoMore.
RailShowsWhatIsDone ==
  acknowledged # NoTour =>
    /\ SatisfiedSteps \subseteq DoneSteps
    /\ CurrentIndex \in SatisfiedSteps => IsComplete
    /\ \A i \in DoneSteps : i < acknowledged \/ \E j \in SatisfiedSteps : i <= j

\* The README says of the rail: "nothing a judge does can make it claim more or less
\* progress than the data supports".  So a step that the data alone decides has its tick
\* only when the data says that it is finished.  The code does not keep this: GO takes any
\* step, and every step before the rail's is ticked.
RailClaimsNoMore ==
  acknowledged # NoTour => DoneSteps \cap SignalSteps \subseteq SatisfiedSteps

\* judge-tour.ts says: "scenario state can only push that forward, never back".  Short
\* of a reset, no command of any party takes a tick off the rail.
DoneStaysDone ==
  [][acknowledged # NoTour /\ acknowledged' = acknowledged /\ resets' = resets =>
       DoneSteps \subseteq DoneSteps']_tourVars
=============================================================================
