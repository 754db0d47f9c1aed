----------------------- MODULE ResolutionWorkflowProofs -----------------------
(***************************************************************************)
(* What TLAPS proves of the resolution workflow, for every set of          *)
(* employment records, issues and requests.  The invariants are proved     *)
(* together: Legal is inductive because every command leaves a legal       *)
(* document (ResolutionLemmas, OutcomesLegal), and each invariant of the   *)
(* workflow is one of its parts or follows from them.                      *)
(***************************************************************************)
EXTENDS ResolutionWorkflow, ResolutionLemmas

\* Every step of the workflow but the reset saves an outcome of one command.
LEMMA CommandIsOutcome == Command => doc' \in CommandOutcomes(doc) /\ UNCHANGED resets
<1> SUFFICES ASSUME Command PROVE doc' \in CommandOutcomes(doc)
  BY DEF Command, MemberStartsMarkExit, MemberCompletesMarkExit, MemberCreatesRequest,
         MemberResubmits, MemberSavesNomination, MemberRecordsPreflight, MemberSubmitsClaim,
         EmployerDecides, ProcessorAdvances
<1> DEFINE exits == UNION {StartMarkExit(doc, i) \cup CompleteMarkExit(doc, i) \cup Resubmit(doc, i) :
                             i \in Issues}
           requests == UNION {CreateRequest(doc, i, r) : i \in Issues, r \in NewRequestIds}
           decisions == UNION {ActOnRequest(doc, r, decision) :
                                 r \in RequestIds, decision \in Decisions}
           advances == UNION {AdvanceClaim(doc, next) : next \in claimActionTargets}
<1>1. CommandOutcomes(doc) = exits \cup requests \cup decisions \cup advances
                        \cup SubmitClaim(doc) \cup SaveNomination(doc) \cup CompletePreflight(doc)
  BY DEF CommandOutcomes
<1>2. \A i \in Issues : StartMarkExit(doc, i) \cup CompleteMarkExit(doc, i) \cup Resubmit(doc, i)
                          \subseteq exits
  OBVIOUS
<1>3. \A i \in Issues, r \in NewRequestIds : CreateRequest(doc, i, r) \subseteq requests
  OBVIOUS
<1>4. \A r \in RequestIds, decision \in Decisions :
        ActOnRequest(doc, r, decision) \subseteq decisions
  OBVIOUS
<1>5. \A next \in claimActionTargets : AdvanceClaim(doc, next) \subseteq advances
  OBVIOUS
<1> HIDE DEF exits, requests, decisions, advances
<1>6. ExitIssues \subseteq Issues /\ LegacyIssues \subseteq Issues
  BY DEF Issues
<1> QED BY <1>1, <1>2, <1>3, <1>4, <1>5, <1>6
           DEF Command, MemberStartsMarkExit, MemberCompletesMarkExit,
               MemberCreatesRequest, MemberResubmits, MemberSavesNomination,
               MemberRecordsPreflight, MemberSubmitsClaim, EmployerDecides, ProcessorAdvances

\* The document is legal at every moment: all parts of the invariant, for every
\* scenario (epfo-service.ts and everything it calls).
THEOREM AlwaysLegal == Spec => []Legal
<1>1. Init => Legal
  BY SeedLegal DEF Init, Legal
<1>2. Legal /\ [Next]_vars => Legal'
  <2>1. ASSUME Legal, Next PROVE Legal'
    BY <2>1, CommandIsOutcome, OutcomesLegal DEF Legal, Next, DemoResets, Outcomes
  <2>2. ASSUME Legal, UNCHANGED vars PROVE Legal'
    BY <2>2 DEF Legal, vars
  <2> QED BY <2>1, <2>2
<1> QED BY <1>1, <1>2, PTL DEF Spec

\* The document keeps the shape AppStateSchema admits (schemas.ts).
THEOREM TypeCorrect == Spec => []TypeOK
<1> DEFINE Bounded == resets \in 0..MaxResets
<1>1. Init => Bounded
  BY MaxResetsAssumption DEF Init
<1>2. Bounded /\ [Next]_vars => Bounded'
  BY MaxResetsAssumption
     DEF Next, Command, DemoResets, MemberStartsMarkExit, MemberCompletesMarkExit,
         MemberCreatesRequest, MemberResubmits, MemberSavesNomination,
         MemberRecordsPreflight, MemberSubmitsClaim, EmployerDecides, ProcessorAdvances, vars
<1>3. Legal /\ Bounded => TypeOK
  BY DEF Legal, LegalDocument, TypeOK
<1> HIDE DEF Bounded
<1> QED BY <1>1, <1>2, <1>3, AlwaysLegal, PTL DEF Spec

\* Readiness and claim never disagree (synchronizeClaimReadiness).
THEOREM ClaimFollowsReadiness == Spec => []ClaimMatchesReadiness
<1>1. Legal => ClaimMatchesReadiness
  BY DEF Legal, LegalDocument, ClaimMatchesReadiness
<1> QED BY <1>1, AlwaysLegal, PTL

\* The issue machine and the request machine never get out of step, however the
\* member's and the reviewers' commands are ordered (createRequest, decide,
\* resubmit).
THEOREM IssueFollowsRequest == Spec => []IssueMatchesRequest
<1>1. Legal => IssueMatchesRequest
  BY DEF Legal, LegalDocument, IssueMatchesRequest
<1> QED BY <1>1, AlwaysLegal, PTL

\* A record is corrected exactly when its issue is resolved, whichever route the
\* correction took (completeMarkExit and decide).
THEOREM RecordFollowsIssue == Spec => []RecordMatchesIssue
<1>1. Legal => RecordMatchesIssue
  BY DEF Legal, LegalDocument, RecordMatchesIssue
<1> QED BY <1>1, AlwaysLegal, PTL

\* The reason a request shows is that of its last decision (transitionEmployerRequest).
THEOREM ReasonsFollowDecisions == Spec => []DecisionsExplained
<1>1. Legal => DecisionsExplained
  BY DEF Legal, LegalDocument, DecisionsExplained
<1> QED BY <1>1, AlwaysLegal, PTL

\* The claim's history is the path it took (claim-machine.ts).
THEOREM HistoryFaithful == Spec => []HistoryIsThePath
<1>1. Legal => HistoryIsThePath
  BY DEF Legal, LegalDocument, HistoryIsThePath
<1> QED BY <1>1, AlwaysLegal, PTL

\* Money is on its way only after the member closed every missing exit, the
\* employer approved a request for every legacy exception and the member
\* submitted the claim.
THEOREM PaymentIsAuthorised == Spec => []PaymentNeedsBothParties
<1>1. Legal => PaymentNeedsBothParties
  BY LegalIsAuthorised DEF Legal, PaymentNeedsBothParties
<1> QED BY <1>1, AlwaysLegal, PTL

-----------------------------------------------------------------------------

\* Only a reset undoes anything.
THEOREM NothingIsUndone == Spec => OnlyResetUndoes
<1>1. ASSUME Legal, TypeOK, [Next]_vars PROVE [resets' # resets \/ UndoesNothing(doc, doc')]_vars
  <2>1. CASE DemoResets
    <3>1. resets \in Nat
      BY <1>1, MaxResetsAssumption DEF TypeOK
    <3> QED BY <2>1, <3>1 DEF DemoResets
  <2>2. CASE Command
    BY <1>1, <2>2, CommandIsOutcome, CommandsUndoNothing DEF Legal
  <2> QED BY <1>1, <2>1, <2>2 DEF Next
<1> QED BY <1>1, AlwaysLegal, TypeCorrect, PTL DEF Spec, OnlyResetUndoes

\* Every command moves each issue, each request and the claim along its own machine's table, and
\* no other way (issue-machine.ts, employer-request-machine.ts, claim-machine.ts): whatever the
\* services do around it.
THEOREM MachinesAreFollowed == Spec => [][resets' # resets \/ FollowsMachines(doc, doc')]_vars
<1>1. ASSUME Legal, TypeOK, [Next]_vars PROVE [resets' # resets \/ FollowsMachines(doc, doc')]_vars
  <2>1. DemoResets => resets' # resets
    BY <1>1, MaxResetsAssumption DEF TypeOK, DemoResets
  <2>2. Command => FollowsMachines(doc, doc')
    BY <1>1, CommandIsOutcome, CommandFollowsMachines DEF Legal
  <2> QED BY <1>1, <2>1, <2>2 DEF Next
<1> QED BY <1>1, AlwaysLegal, TypeCorrect, PTL DEF Spec

\* Issues, requests and reviewers only carry out the claim journey: every command
\* removes one defect (and makes the claim ready with the last one), moves an
\* unblocked claim one state on, starts over, or is invisible to the journey.
THEOREM WorkflowImplementsJourney == Spec => ImplementsJourney
<1>1. Init => Journey!JourneyInit
  BY DEF Init, SeedDocument, Journey!JourneyInit
<1>2. ASSUME Legal, [Next]_vars PROVE [Journey!JourneyNext]_(Journey!journeyVars)
  <2>1. Journey!JourneySequence = CLAIM_SEQUENCE
    BY DEF Journey!JourneySequence, CLAIM_SEQUENCE
  <2>2. OpenDefects(doc) \subseteq OpenDefects(SeedDocument)
    BY <1>2, DefectsAreSeeded DEF Legal
  <2>3. CASE Command
    <3>1. JourneyMove(doc, doc')
      BY <1>2, <2>3, CommandIsOutcome, CommandIsJourneyMove DEF Legal
    <3> QED BY <2>1, <2>2, <3>1
            DEF JourneyMove, Journey!JourneyNext, Journey!journeyVars, Journey!RemoveDefect,
                Journey!MoveOn
  <2>4. CASE DemoResets
    <3>1. doc' = SeedDocument
      BY <2>4 DEF DemoResets, Reset
    <3>2. Journey!StartOver
      BY <3>1 DEF Journey!StartOver, SeedDocument
    <3> QED BY <3>2 DEF Journey!JourneyNext
  <2>5. CASE UNCHANGED vars
    BY <2>5 DEF vars, Journey!journeyVars
  <2> QED BY <1>2, <2>3, <2>4, <2>5 DEF Next
<1> QED BY <1>1, <1>2, AlwaysLegal, PTL DEF Spec, ImplementsJourney, Journey!JourneySpec

-----------------------------------------------------------------------------
(* The journey ends. *)

\* EngagedParties with "the command is accepted" in the place of ENABLED: whoever could act
\* from now on does, and a reviewer who could approve again and again does.
MarksExit(i) ==
  /\ [](StartMarkExit(doc, i) # {}) => <><<MemberStartsMarkExit(i)>>_vars
  /\ [](CompleteMarkExit(doc, i) # {}) => <><<MemberCompletesMarkExit(i)>>_vars

AsksEmployer(i) ==
  /\ [](\E r \in NewRequestIds : CreateRequest(doc, i, r) # {}) => <><<MemberCreatesRequest(i)>>_vars
  /\ [](Resubmit(doc, i) # {}) => <><<MemberResubmits(i)>>_vars

Reviews(r) ==
  /\ [](ActOnRequest(doc, r, "START_REVIEW") # {}) => <><<EmployerDecides(r, "START_REVIEW")>>_vars
  /\ []<>(ActOnRequest(doc, r, "APPROVE") # {}) => <><<EmployerDecides(r, "APPROVE")>>_vars

Submits == [](SubmitClaim(doc) # {}) => <><<MemberSubmitsClaim>>_vars

Processes(next) == [](AdvanceClaim(doc, next) # {}) => <><<ProcessorAdvances(next)>>_vars

Engaged ==
  /\ \A i \in ExitIssues : MarksExit(i)
  /\ \A i \in LegacyIssues : AsksEmployer(i)
  /\ \A r \in RequestIds : Reviews(r)
  /\ Submits
  /\ \A next \in claimActionTargets : Processes(next)

\* A new request id stands for a request the member sent.
NewIdsAreSent ==
  \A r \in NewRequestIds : doc.request[r].status # "ABSENT" => doc.request[r].issue \in LegacyIssues

Orderly == Legal /\ NewIdsAreSent

\* One command, or none.
CommandStep(d, e) == LegalDocument(e) /\ FollowsMachines(d, e) /\ UndoesNothing(d, e)

LEMMA StepIsCommand ==
  ASSUME Legal, [Next]_vars, [~ DemoResets]_vars
  PROVE  CommandStep(doc, doc')
<1>1. CASE Command
  BY <1>1, CommandIsOutcome, OutcomesLegal, CommandFollowsMachines, CommandsUndoNothing
     DEF Legal, Outcomes, CommandStep
<1>2. CASE UNCHANGED vars
  BY <1>2 DEF vars, CommandStep, Legal, FollowsMachines, UndoesNothing
<1> QED BY <1>1, <1>2 DEF Next

LEMMA OrderlyStays ==
  ASSUME Orderly, [Next]_vars
  PROVE  Orderly'
<1>1. CASE DemoResets
  <2>1. doc' = SeedDocument
    BY <1>1 DEF DemoResets, Reset
  <2>2. \A r \in NewRequestIds : SeedDocument.request[r].status = "ABSENT"
    BY RequestsAssumption DEF SeedDocument, NoRequest, RequestIds
  <2> QED BY <2>1, <2>2, SeedLegal DEF Orderly, Legal, NewIdsAreSent
<1>2. CASE ~ DemoResets
  <2>1. CommandStep(doc, doc')
    BY <1>2, StepIsCommand DEF Orderly
  <2>2. NewIdsAreSent'
    BY <2>1 DEF CommandStep, FollowsMachines, NewIdsAreSent, Orderly, RequestIds
  <2> QED BY <2>1, <2>2 DEF CommandStep, Orderly, Legal
<1> QED BY <1>1, <1>2

LEMMA AlwaysOrderly == Spec => []Orderly
<1>1. Init => Orderly
  <2>1. \A r \in NewRequestIds : SeedDocument.request[r].status = "ABSENT"
    BY RequestsAssumption DEF SeedDocument, NoRequest, RequestIds
  <2> QED BY <2>1, SeedLegal DEF Init, Orderly, Legal, NewIdsAreSent
<1>2. Orderly /\ [Next]_vars => Orderly'
  BY OrderlyStays
<1> QED BY <1>1, <1>2, PTL DEF Spec

Closed(i) == doc.issue[i] = "RESOLVED"

LEMMA ClosedStays ==
  ASSUME Legal, [Next]_vars, [~ DemoResets]_vars, NEW i \in Issues
  PROVE  Closed(i) => Closed(i)'
BY StepIsCommand DEF CommandStep, UndoesNothing, Closed

\* Issue i is closed for good.
EndsClosed(i) == <>[]Closed(i)

\* Mark Exit comes to its end (member-self-service-adapter.ts).
LEMMA ExitsClose ==
  ASSUME NEW i \in ExitIssues
  PROVE  []Legal /\ [][Next]_vars /\ [][~ DemoResets]_vars /\ []Engaged => EndsClosed(i)
<1> DEFINE Open == doc.issue[i] = "OPEN"
           Started == doc.issue[i] = "ACTION_REQUIRED"
<1>1. i \in Issues
  BY DEF Issues
<1>2. Legal => Open \/ Started \/ Closed(i)
  BY DEF Legal, LegalDocument, RequestPart, Closed
<1>3. ASSUME Legal, [Next]_vars, [~ DemoResets]_vars
      PROVE  /\ Open => Open' \/ Started' \/ Closed(i)'
             /\ Started => Started' \/ Closed(i)'
             /\ Closed(i) => Closed(i)'
  <2>1. CommandStep(doc, doc')
    BY <1>3, StepIsCommand
  <2>2. doc'.issue[i] \in {"OPEN", "ACTION_REQUIRED", "RESOLVED"}
    BY <2>1 DEF CommandStep, LegalDocument, RequestPart
  <2>3. Started => doc'.issue[i] # "OPEN"
    BY <1>1, <2>1 DEF CommandStep, FollowsMachines, ISSUE_TRANSITIONS
  <2>4. Closed(i) => Closed(i)'
    BY <1>1, <1>3, ClosedStays
  <2> QED BY <2>2, <2>3, <2>4 DEF Closed
<1>4. Legal /\ Open => StartMarkExit(doc, i) # {}
  <2>1. Open => "ACTION_REQUIRED" \in ISSUE_TRANSITIONS[doc.issue[i]]
    BY DEF ISSUE_TRANSITIONS
  <2> QED BY <2>1 DEF StartMarkExit, When
<1>5. Legal /\ Started => CompleteMarkExit(doc, i) # {}
  BY DEF CompleteMarkExit, When
<1>6. Legal /\ <<MemberStartsMarkExit(i)>>_vars => Started'
  <2> SUFFICES ASSUME Legal, MemberStartsMarkExit(i) PROVE Started'
    OBVIOUS
  <2>1. doc' = [doc EXCEPT !.issue[i] = "ACTION_REQUIRED"]
    BY DEF MemberStartsMarkExit, StartMarkExit, When
  <2> QED BY <1>1, <2>1 DEF Legal, LegalDocument, Document
<1>7. Legal /\ <<MemberCompletesMarkExit(i)>>_vars => Closed(i)'
  <2> SUFFICES ASSUME Legal, MemberCompletesMarkExit(i) PROVE Closed(i)'
    OBVIOUS
  <2>1. doc'.issue = [doc.issue EXCEPT ![i] = "RESOLVED"]
    BY <1>1, ExitIsResolved DEF Legal, MemberCompletesMarkExit
  <2> QED BY <1>1, <2>1 DEF Legal, LegalDocument, Document, Closed
<1>8. Engaged => MarksExit(i)
  BY DEF Engaged
<1> HIDE DEF Open, Started
<1> QED BY <1>2, <1>3, <1>4, <1>5, <1>6, <1>7, <1>8, PTL DEF MarksExit, EndsClosed

RejectedOne == \E r \in RequestIds : doc.request[r].issue # NoIssue /\ doc.request[r].status = "REJECTED"

About(r, i) == doc.request[r].issue = i

\* A request that is out is decided, for or against (employer-workflow-adapter.ts).
LEMMA RequestsAreDecided ==
  ASSUME NEW i \in LegacyIssues, NEW r \in RequestIds
  PROVE  []Legal /\ [][Next]_vars /\ [][~ DemoResets]_vars /\ []Engaged
           => (About(r, i) ~> Closed(i) \/ RejectedOne)
<1> DEFINE Is(status) == About(r, i) /\ doc.request[r].status = status
<1>1. i \in Issues /\ i # NoIssue
  BY IssuesAssumption DEF Issues
<1>2. Legal /\ About(r, i) => \/ Is("AWAITING_REVIEW") \/ Is("IN_REVIEW")
                              \/ Is("INFORMATION_REQUESTED") \/ Is("APPROVED") \/ Is("REJECTED")
  BY <1>1 DEF Legal, LegalDocument, RequestPart, Document, Request, RequestStatus, About
<1>3. ASSUME Legal, [Next]_vars, [~ DemoResets]_vars
      PROVE  /\ Is("AWAITING_REVIEW") => Is("AWAITING_REVIEW")' \/ Is("IN_REVIEW")'
             /\ Is("IN_REVIEW") => \/ Is("IN_REVIEW")' \/ Is("INFORMATION_REQUESTED")'
                                   \/ Is("APPROVED")' \/ Is("REJECTED")'
             /\ Is("INFORMATION_REQUESTED") =>
                  Is("INFORMATION_REQUESTED")' \/ Is("AWAITING_REVIEW")'
  <2>1. FollowsMachines(doc, doc')
    BY <1>3, StepIsCommand DEF CommandStep
  <2>2. doc.request[r].status # "ABSENT" =>
          /\ doc'.request[r].issue = doc.request[r].issue
          /\ \/ doc'.request[r].status = doc.request[r].status
             \/ doc'.request[r].status \in REQUEST_TRANSITIONS[doc.request[r].status]
    BY <2>1 DEF FollowsMachines
  <2> QED BY <2>2 DEF About, REQUEST_TRANSITIONS
<1>4. Legal /\ Is("APPROVED") => Closed(i)
  BY <1>1 DEF Legal, LegalDocument, RequestPart, IssueStatusFor, About, Closed
<1>5. Is("REJECTED") => RejectedOne
  BY <1>1 DEF RejectedOne, About
<1>6. Legal /\ Is("AWAITING_REVIEW") => ActOnRequest(doc, r, "START_REVIEW") # {}
  <2>1. Is("AWAITING_REVIEW") => CanDecide(doc, r, "START_REVIEW")
    BY DEF CanDecide, CanTransitionRequest, TARGET_BY_DECISION, REQUEST_TRANSITIONS
  <2>2. CanDecide(doc, r, "START_REVIEW") => DecideRequestOnly(doc, r, "START_REVIEW") # {}
    BY DEF DecideRequestOnly, When
  <2> QED BY <2>1, <2>2 DEF ActOnRequest
<1>7. Legal /\ Is("IN_REVIEW") => ActOnRequest(doc, r, "APPROVE") # {}
  <2> SUFFICES ASSUME Legal, Is("IN_REVIEW") PROVE ActOnRequest(doc, r, "APPROVE") # {}
    OBVIOUS
  <2>1. CanDecide(doc, r, "APPROVE")
    BY DEF CanDecide, CanTransitionRequest, TARGET_BY_DECISION, REQUEST_TRANSITIONS, ReasonGiven
  <2>2. doc.issue[i] = "WAITING_EXTERNAL"
    BY <1>1 DEF Legal, LegalDocument, RequestPart, IssueStatusFor, About
  <2>3. ISSUE_BY_DECISION["APPROVE"] \in ISSUE_TRANSITIONS[doc.issue[doc.request[r].issue]]
    BY <2>2 DEF ISSUE_BY_DECISION, ISSUE_TRANSITIONS, About
  <2>4. DecideWithIssue(doc, r, "APPROVE") # {}
    BY <1>1, <2>1, <2>3 DEF DecideWithIssue, When, About
  <2> QED BY <2>4 DEF ActOnRequest
<1>8. Legal /\ Is("INFORMATION_REQUESTED") => Resubmit(doc, i) # {}
  <2> SUFFICES ASSUME Legal, Is("INFORMATION_REQUESTED") PROVE Resubmit(doc, i) # {}
    OBVIOUS
  <2>1. doc.issue[i] = "ACTION_REQUIRED"
    BY <1>1 DEF Legal, LegalDocument, RequestPart, IssueStatusFor, About
  <2>2. CanTransitionRequest(doc.request[r], "AWAITING_REVIEW", FALSE)
          /\ "WAITING_EXTERNAL" \in ISSUE_TRANSITIONS[doc.issue[i]]
    BY <2>1 DEF CanTransitionRequest, REQUEST_TRANSITIONS, ISSUE_TRANSITIONS
  <2>3. [RequestMoved(doc, r, "AWAITING_REVIEW", FALSE) EXCEPT !.issue[i] = "WAITING_EXTERNAL"]
          \in Resubmit(doc, i)
    BY <2>2 DEF Resubmit, When, About
  <2> QED BY <2>3
<1>9. ASSUME NEW decision \in Decisions, Legal, EmployerDecides(r, decision), About(r, i)
      PROVE  Is(TARGET_BY_DECISION[decision])'
  <2>1. doc'.request = [doc.request EXCEPT ![r].status = TARGET_BY_DECISION[decision],
                                           ![r].explained = ReasonGiven(decision)]
    BY <1>9, DecisionMovesOne DEF Legal, EmployerDecides
  <2>2. doc.request \in [RequestIds -> Request]
    BY <1>9 DEF Legal, LegalDocument, Document
  <2> DEFINE status == TARGET_BY_DECISION[decision]
  <2> HIDE DEF status
  <2>3. doc'.request = [doc.request EXCEPT ![r].status = status, ![r].explained = ReasonGiven(decision)]
    BY <2>1 DEF status
  <2>4. doc'.request[r].issue = i /\ doc'.request[r].status = status
    BY <1>9, <2>2, <2>3 DEF Request, About
  <2> QED BY <2>4 DEF About, status
<1>10. /\ Legal /\ <<EmployerDecides(r, "START_REVIEW")>>_vars /\ Is("AWAITING_REVIEW") => Is("IN_REVIEW")'
       /\ Legal /\ <<EmployerDecides(r, "APPROVE")>>_vars /\ About(r, i) => Is("APPROVED")'
  <2>1. /\ "START_REVIEW" \in Decisions /\ TARGET_BY_DECISION["START_REVIEW"] = "IN_REVIEW"
        /\ "APPROVE" \in Decisions /\ TARGET_BY_DECISION["APPROVE"] = "APPROVED"
    BY DEF Decisions, TARGET_BY_DECISION
  <2> QED BY <1>9, <2>1
<1>11. Legal /\ <<MemberResubmits(i)>>_vars /\ Is("INFORMATION_REQUESTED") => Is("AWAITING_REVIEW")'
  <2> SUFFICES ASSUME Legal, MemberResubmits(i), About(r, i) PROVE Is("AWAITING_REVIEW")'
    OBVIOUS
  <2>1. PICK q \in RequestIds :
          /\ doc.request[q].issue = i
          /\ doc' = [RequestMoved(doc, q, "AWAITING_REVIEW", FALSE) EXCEPT !.issue[i] = "WAITING_EXTERNAL"]
    BY DEF MemberResubmits, Resubmit, When
  <2>2. q = r
    BY <1>1, <2>1 DEF Legal, LegalDocument, RequestPart, About
  <2>3. doc'.request = [doc.request EXCEPT ![r].status = "AWAITING_REVIEW", ![r].explained = FALSE]
    BY <2>1, <2>2 DEF Legal, LegalDocument, Document, RequestMoved
  <2> QED BY <2>3 DEF Legal, LegalDocument, Document, Request, About
<1>12. Engaged => Reviews(r) /\ AsksEmployer(i)
  BY DEF Engaged
<1>13. \A status : Is(status) => About(r, i)
  OBVIOUS
<1> DEFINE Awaiting == Is("AWAITING_REVIEW")
           Open == Is("IN_REVIEW")
           Asked == Is("INFORMATION_REQUESTED")
           Approved == Is("APPROVED")
           Rejected == Is("REJECTED")
           Mine == About(r, i)
<1>14. Legal /\ Mine => Awaiting \/ Open \/ Asked \/ Approved \/ Rejected
  BY <1>2
<1>15. Legal /\ [Next]_vars /\ [~ DemoResets]_vars =>
         /\ Awaiting => Awaiting' \/ Open'
         /\ Open => Open' \/ Asked' \/ Approved' \/ Rejected'
         /\ Asked => Asked' \/ Awaiting'
  BY <1>3
<1>16. /\ Legal /\ Approved => Closed(i)
       /\ Rejected => RejectedOne
       /\ Open => Mine
  BY <1>4, <1>5
<1>17. /\ Legal /\ Awaiting => ActOnRequest(doc, r, "START_REVIEW") # {}
       /\ Legal /\ Open => ActOnRequest(doc, r, "APPROVE") # {}
       /\ Legal /\ Asked => Resubmit(doc, i) # {}
  BY <1>6, <1>7, <1>8
<1>18. /\ Legal /\ <<EmployerDecides(r, "START_REVIEW")>>_vars /\ Awaiting => Open'
       /\ Legal /\ <<EmployerDecides(r, "APPROVE")>>_vars /\ Mine => Approved'
       /\ Legal /\ <<MemberResubmits(i)>>_vars /\ Asked => Awaiting'
  BY <1>10, <1>11
<1>19. Awaiting \/ Open \/ Asked => Mine
  OBVIOUS
<1> HIDE DEF Is, Awaiting, Open, Asked, Approved, Rejected, Mine
<1>20. []Legal /\ [][Next]_vars /\ [][~ DemoResets]_vars /\ []Engaged
         => (Mine ~> Closed(i) \/ RejectedOne)
  BY <1>12, <1>14, <1>15, <1>16, <1>17, <1>18, <1>19, PTL DEF Reviews, AsksEmployer
<1> QED BY <1>20 DEF Mine

\* From now on the request about issue i, if it is out, will have been decided.
Answered(i) == <>(Closed(i) \/ RejectedOne)

IsAnswered(r, i) == About(r, i) => Answered(i)

\* A legacy exception is closed once and for all, or a request is rejected.
LEMMA LegacyCloses ==
  ASSUME NEW i, LegacyIssues = {i}, NewRequestIds # {}
  PROVE  []Orderly /\ [][Next]_vars /\ [][~ DemoResets]_vars /\ []Engaged
           => EndsClosed(i) \/ <>RejectedOne
<1> DEFINE Unsent == \A r \in RequestIds : ~ About(r, i)
           Possible == \E r \in NewRequestIds : CreateRequest(doc, i, r) # {}
<1>1. ASSUME []Orderly, [][Next]_vars, [][~ DemoResets]_vars, []Engaged
      PROVE  \A r \in RequestIds : IsAnswered(r, i)
  <2> TAKE r \in RequestIds
  <2>1. []Legal /\ [][Next]_vars /\ [][~ DemoResets]_vars /\ []Engaged
          => (About(r, i) ~> Closed(i) \/ RejectedOne)
    <3>1. i \in LegacyIssues
      OBVIOUS
    <3> QED BY <3>1, RequestsAreDecided
  <2>2. Orderly => Legal
    BY DEF Orderly
  <2> QED BY <1>1, <2>1, <2>2, PTL DEF IsAnswered, Answered
<1>2. []Orderly /\ [][Next]_vars /\ [][~ DemoResets]_vars /\ []Engaged
        => [](\A r \in RequestIds : IsAnswered(r, i))
  BY <1>1, PTL
<1>3. (\A r \in RequestIds : IsAnswered(r, i)) => Unsent \/ Answered(i)
  BY DEF IsAnswered
<1>4. i \in LegacyIssues /\ i \in Issues
  BY DEF Issues
<1>5. Orderly /\ Unsent => Possible
  <2> SUFFICES ASSUME Orderly, Unsent, NEW r \in NewRequestIds PROVE CreateRequest(doc, i, r) # {}
    OBVIOUS
  <2>1. doc.request[r].status = "ABSENT"
    <3>1. doc.request[r] \in Request
      BY DEF Orderly, Legal, LegalDocument, Document, RequestIds
    <3> QED BY <3>1 DEF Orderly, NewIdsAreSent, About, RequestIds
  <2>2. \A q \in RequestIds : doc.request[q].issue # i
    BY DEF About
  <2> QED BY <1>4, <2>1, <2>2 DEF CreateRequest, When
<1>6. Orderly /\ <<MemberCreatesRequest(i)>>_vars => ~ Unsent'
  <2> SUFFICES ASSUME Orderly, MemberCreatesRequest(i) PROVE \E r \in RequestIds : About(r, i)'
    OBVIOUS
  <2>1. PICK r \in NewRequestIds : doc' \in CreateRequest(doc, i, r)
    BY DEF MemberCreatesRequest
  <2>2. r \in RequestIds /\ doc'.request[r].issue = i
    <3>1. r \in RequestIds /\ doc.request \in [RequestIds -> Request]
      BY DEF RequestIds, Orderly, Legal, LegalDocument, Document
    <3> DEFINE q == [issue |-> i, status |-> "AWAITING_REVIEW", explained |-> FALSE,
                     exitShown |-> doc.record[Related[i]].exitStatus = "VERIFIED"]
    <3>2. doc'.request = [doc.request EXCEPT ![r] = q] /\ q.issue = i
      BY <2>1 DEF CreateRequest, When, Orderly, Legal, LegalDocument, Document
    <3> HIDE DEF q
    <3> QED BY <3>1, <3>2
  <2> QED BY <2>2 DEF About
<1>7. Orderly /\ [Next]_vars /\ [~ DemoResets]_vars => (Closed(i) => Closed(i)')
  BY <1>4, ClosedStays DEF Orderly
<1>8. Engaged => AsksEmployer(i)
  BY DEF Engaged
<1>9. AsksEmployer(i) => ([]Possible => <><<MemberCreatesRequest(i)>>_vars)
  BY DEF AsksEmployer
<1> DEFINE AllDecided == \A r \in RequestIds : IsAnswered(r, i)
<1> HIDE DEF Unsent, Possible, AllDecided
<1>10. Answered(i) <=> <>(Closed(i) \/ RejectedOne)
  BY DEF Answered
<1>11. []Orderly /\ [][Next]_vars /\ [][~ DemoResets]_vars /\ []Engaged => []AllDecided
  BY <1>2 DEF AllDecided
<1>12. AllDecided => Unsent \/ Answered(i)
  BY <1>3 DEF AllDecided
<1> QED BY <1>5, <1>6, <1>7, <1>8, <1>9, <1>10, <1>11, <1>12, PTL DEF EndsClosed

At(state) == doc.claim = state

MovesOn(s, t) == At(s) ~> At(t)

\* The claim moves on along its sequence (claim-machine.ts, advanceClaim).
LEMMA ClaimMovesOn ==
  ASSUME NEW s, NEW t \in claimActionTargets, IsNextClaimState(s, t)
  PROVE  []Legal /\ [][Next]_vars /\ [][~ DemoResets]_vars /\ []Engaged => MovesOn(s, t)
<1> DEFINE Possible == AdvanceClaim(doc, t) # {}
<1>1. s # "DRAFT" /\ t # "SUBMITTED"
  BY DEF IsNextClaimState, CLAIM_SEQUENCE, claimActionTargets
<1>2. At(s) => Possible
  BY <1>1 DEF At, AdvanceClaim, TransitionClaim, When
<1>3. Legal /\ <<ProcessorAdvances(t)>>_vars => At(t)'
  BY DEF Legal, LegalDocument, Document, ProcessorAdvances, AdvanceClaim, TransitionClaim, When,
         ClaimMoved, At
<1>4. Legal /\ [Next]_vars /\ [~ DemoResets]_vars => (At(s) => At(s)' \/ At(t)')
  <2>1. \A u : IsNextClaimState(s, u) => u = t
    BY DEF IsNextClaimState, CLAIM_SEQUENCE
  <2> QED BY <2>1, StepIsCommand DEF CommandStep, FollowsMachines, At
<1>5. Engaged => Processes(t)
  BY DEF Engaged
<1>6. Processes(t) => ([]Possible => <><<ProcessorAdvances(t)>>_vars)
  BY DEF Processes
<1> HIDE DEF Possible
<1> QED BY <1>2, <1>3, <1>4, <1>5, <1>6, PTL DEF MovesOn

\* The member submits a claim that is ready (submitClaim).
LEMMA ReadyIsSubmitted ==
  []Legal /\ [][Next]_vars /\ [][~ DemoResets]_vars /\ []Engaged
    => MovesOn("READY", "SUBMITTED")
<1> DEFINE Possible == SubmitClaim(doc) # {}
<1>1. IsNextClaimState("READY", "SUBMITTED") /\ \A u : IsNextClaimState("READY", u) => u = "SUBMITTED"
  BY DEF IsNextClaimState, CLAIM_SEQUENCE
<1>2. At("READY") => Possible
  BY <1>1 DEF At, SubmitClaim, TransitionClaim, When
<1>3. Legal /\ <<MemberSubmitsClaim>>_vars => At("SUBMITTED")'
  BY DEF Legal, LegalDocument, Document, MemberSubmitsClaim, SubmitClaim, TransitionClaim, When,
         ClaimMoved, At
<1>4. Legal /\ [Next]_vars /\ [~ DemoResets]_vars => (At("READY") => At("READY")' \/ At("SUBMITTED")')
  BY <1>1, StepIsCommand DEF CommandStep, FollowsMachines, At
<1>5. Engaged => ([]Possible => <><<MemberSubmitsClaim>>_vars)
  BY DEF Engaged, Submits
<1> HIDE DEF Possible
<1> QED BY <1>2, <1>3, <1>4, <1>5, PTL DEF MovesOn

\* With one missing exit and one legacy exception, as the fixtures create them, the journey
\* ends in a credited claim: unless the employer rejects, or the scenario is reset for ever.
THEOREM JourneySettles ==
  ASSUME NEW exit, NEW legacy, ExitIssues = {exit}, LegacyIssues = {legacy}, NewRequestIds # {}
  PROVE  Spec /\ []Engaged => SettlesUnlessRejected \/ []<><<DemoResets>>_vars
<1>1. exit \in ExitIssues /\ legacy \in LegacyIssues
  OBVIOUS
<1>2. Legal /\ Closed(exit) /\ Closed(legacy) => ~ At("DRAFT")
  <2> SUFFICES ASSUME Legal, Closed(exit), Closed(legacy) PROVE ~ HasBlockingChecks(doc)
    BY DEF Legal, LegalDocument, ReadinessPart, At
  <2> QED BY <1>1 DEF Legal, LegalDocument, RecordPart, Document, EmploymentRecord, Closed,
                      HasBlockingChecks, ExitRecorded, LegacyAligned
<1>3. Legal => \/ At("DRAFT") \/ At("READY") \/ At("SUBMITTED") \/ At("ELIGIBILITY_VERIFIED")
               \/ At("RECORDS_VERIFIED") \/ At("APPROVED") \/ At("PAYMENT_INSTRUCTION_CREATED")
               \/ At("BANK_PROCESSING") \/ At("CREDITED")
  BY DEF Legal, LegalDocument, Document, ClaimState, CLAIM_SEQUENCE, At
<1>4. /\ IsNextClaimState("SUBMITTED", "ELIGIBILITY_VERIFIED")
      /\ IsNextClaimState("ELIGIBILITY_VERIFIED", "RECORDS_VERIFIED")
      /\ IsNextClaimState("RECORDS_VERIFIED", "APPROVED")
      /\ IsNextClaimState("APPROVED", "PAYMENT_INSTRUCTION_CREATED")
      /\ IsNextClaimState("PAYMENT_INSTRUCTION_CREATED", "BANK_PROCESSING")
      /\ IsNextClaimState("BANK_PROCESSING", "CREDITED")
  BY DEF IsNextClaimState, CLAIM_SEQUENCE
<1>5. claimActionTargets = {"ELIGIBILITY_VERIFIED", "RECORDS_VERIFIED", "APPROVED",
                            "PAYMENT_INSTRUCTION_CREATED", "BANK_PROCESSING", "CREDITED"}
  BY DEF claimActionTargets
<1>6. []Legal /\ [][Next]_vars /\ [][~ DemoResets]_vars /\ []Engaged =>
        /\ MovesOn("READY", "SUBMITTED")
        /\ MovesOn("SUBMITTED", "ELIGIBILITY_VERIFIED")
        /\ MovesOn("ELIGIBILITY_VERIFIED", "RECORDS_VERIFIED")
        /\ MovesOn("RECORDS_VERIFIED", "APPROVED")
        /\ MovesOn("APPROVED", "PAYMENT_INSTRUCTION_CREATED")
        /\ MovesOn("PAYMENT_INSTRUCTION_CREATED", "BANK_PROCESSING")
        /\ MovesOn("BANK_PROCESSING", "CREDITED")
  BY <1>4, <1>5, ReadyIsSubmitted, ClaimMovesOn
<1>7. []Legal /\ [][Next]_vars /\ [][~ DemoResets]_vars /\ []Engaged => EndsClosed(exit)
  BY <1>1, ExitsClose
<1>8. []Orderly /\ [][Next]_vars /\ [][~ DemoResets]_vars /\ []Engaged
        => EndsClosed(legacy) \/ <>RejectedOne
  BY LegacyCloses
<1>9. Orderly => Legal
  BY DEF Orderly
<1>10. /\ At("CREDITED") => doc.claim = "CREDITED"
       /\ RejectedOne => \E r \in RequestIds :
                           doc.request[r].issue # NoIssue /\ doc.request[r].status = "REJECTED"
  BY DEF At, RejectedOne
<1>11. Spec => []Orderly
  BY AlwaysOrderly
<1> QED BY <1>2, <1>3, <1>6, <1>7, <1>8, <1>9, <1>10, <1>11, PTL DEF Spec, SettlesUnlessRejected, MovesOn, EndsClosed
=============================================================================
