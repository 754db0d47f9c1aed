-------------------------- MODULE WorkflowPagesProofs --------------------------
(***************************************************************************)
(* The pages agree with the services and with one another in every legal   *)
(* document, for any member, employer and request ids.                     *)
(***************************************************************************)
EXTENDS WorkflowPages, ResolutionWorkflowProofs

\* A correction of the member is accepted exactly where the Mark Date of Exit page
\* has its button.
LEMMA ExitOffers ==
  ASSUME NEW d, LegalDocument(d), NEW i \in Issues
  PROVE  /\ StartMarkExit(d, i) # {} <=> i \in ExitIssues /\ d.issue[i] = "OPEN"
         /\ CompleteMarkExit(d, i) # {} <=>
              i \in ExitIssues /\ d.issue[i] \notin {"OPEN", "RESOLVED"}
<1>1. i \in ExitIssues => d.issue[i] \in {"OPEN", "ACTION_REQUIRED", "RESOLVED"}
  BY DEF LegalDocument, RequestPart
<1>2. StartMarkExit(d, i) # {} <=>
        i \in ExitIssues /\ "ACTION_REQUIRED" \in ISSUE_TRANSITIONS[d.issue[i]]
  BY DEF StartMarkExit, When
<1>3. CompleteMarkExit(d, i) # {} <=> i \in ExitIssues /\ d.issue[i] = "ACTION_REQUIRED"
  BY DEF CompleteMarkExit, When
<1>4. ASSUME i \in ExitIssues
      PROVE  "ACTION_REQUIRED" \in ISSUE_TRANSITIONS[d.issue[i]] <=> d.issue[i] = "OPEN"
  BY <1>1, <1>4 DEF ISSUE_TRANSITIONS
<1> QED BY <1>1, <1>2, <1>3, <1>4

\* While a request about it waits for the member, the issue can go back to the
\* external party.
LEMMA ResubmitOffered ==
  ASSUME NEW d, LegalDocument(d), NEW i \in Issues
  PROVE  Resubmit(d, i) # {} <=>
           \E r \in RequestsAbout(d, i) : d.request[r].status = "INFORMATION_REQUESTED"
<1>1. ASSUME NEW r \in RequestsAbout(d, i), d.request[r].status = "INFORMATION_REQUESTED"
      PROVE  /\ CanTransitionRequest(d.request[r], "AWAITING_REVIEW", FALSE)
             /\ "WAITING_EXTERNAL" \in ISSUE_TRANSITIONS[d.issue[i]]
  <2>1. d.issue[i] = "ACTION_REQUIRED"
    BY <1>1, IssuesAssumption DEF LegalDocument, RequestPart, RequestsAbout, IssueStatusFor
  <2> QED BY <1>1, <2>1 DEF CanTransitionRequest, REQUEST_TRANSITIONS, ISSUE_TRANSITIONS
<1> DEFINE After(r) ==
      When(/\ d.request[r].issue = i
           /\ d.request[r].status = "INFORMATION_REQUESTED"
           /\ CanTransitionRequest(d.request[r], "AWAITING_REVIEW", FALSE)
           /\ "WAITING_EXTERNAL" \in ISSUE_TRANSITIONS[d.issue[i]],
           {[RequestMoved(d, r, "AWAITING_REVIEW", FALSE)
               EXCEPT !.issue[i] = "WAITING_EXTERNAL"]})
<1>2. ASSUME NEW r \in RequestIds
      PROVE  After(r) # {} <=> r \in RequestsAbout(d, i) /\ d.request[r].status = "INFORMATION_REQUESTED"
  BY <1>1 DEF When, RequestsAbout
<1>3. Resubmit(d, i) = UNION {After(r) : r \in RequestIds}
  BY DEF Resubmit
<1> HIDE DEF After
<1>4. Resubmit(d, i) # {} <=> \E r \in RequestIds : After(r) # {}
  BY <1>3
<1> QED BY <1>2, <1>4 DEF RequestsAbout

\* A request can be created exactly where the issue's page finds none.
LEMMA CreateOffered ==
  ASSUME NEW d, LegalDocument(d), SpareId(d), NEW i \in Issues
  PROVE  UNION {CreateRequest(d, i, r) : r \in NewRequestIds} # {} <=>
           i \in LegacyIssues /\ RequestsAbout(d, i) = {}
<1>1. \A r \in NewRequestIds :
        CreateRequest(d, i, r) # {} <=>
          /\ i \in LegacyIssues /\ RequestsAbout(d, i) = {}
          /\ d.request[r].status = "ABSENT"
  BY DEF CreateRequest, When, RequestsAbout
<1> QED BY <1>1 DEF SpareId

\* The member's buttons about issues are what the issue route accepts.
LEMMA MemberOffersExact ==
  ASSUME NEW d, LegalDocument(d), SpareId(d)
  PROVE  MarkExitPage(d) \cup (UNION {IssuePanel(d, i) : i \in Issues}) =
           UNION {{Offer(do, i) : do \in {a \in IssueActions : IssueCommand(d, a, i) # {}}} :
                    i \in Issues}
<1> DEFINE Taken(i) == {a \in IssueActions : IssueCommand(d, a, i) # {}}
           Shown(i) == {o \in MarkExitPage(d) : o.on = i} \cup IssuePanel(d, i)
<1>1. ASSUME NEW i \in Issues PROVE Shown(i) = {Offer(do, i) : do \in Taken(i)}
  <2>1. /\ "START_MARK_EXIT" \in Taken(i) <=> i \in ExitIssues /\ d.issue[i] = "OPEN"
        /\ "COMPLETE_MARK_EXIT" \in Taken(i) <=>
             i \in ExitIssues /\ d.issue[i] \notin {"OPEN", "RESOLVED"}
        /\ "CREATE_EMPLOYER_REQUEST" \in Taken(i) <=>
             i \in LegacyIssues /\ RequestsAbout(d, i) = {}
        /\ "RESUBMIT_EMPLOYER_REQUEST" \in Taken(i) <=>
             \E r \in RequestsAbout(d, i) : d.request[r].status = "INFORMATION_REQUESTED"
    BY ExitOffers, CreateOffered, ResubmitOffered DEF IssueActions, IssueCommand
  <2>2. Taken(i) \subseteq IssueActions
    OBVIOUS
  <2>3. {o \in MarkExitPage(d) : o.on = i} =
          {Offer(do, i) : do \in Taken(i) \cap {"START_MARK_EXIT", "COMPLETE_MARK_EXIT"}}
    <3> HIDE DEF Taken
    <3> QED BY <2>1 DEF MarkExitPage, Offer
  <2>4. IssuePanel(d, i) =
          {Offer(do, i) : do \in Taken(i) \cap {"CREATE_EMPLOYER_REQUEST",
                                                "RESUBMIT_EMPLOYER_REQUEST"}}
    <3> HIDE DEF Taken
    <3>1. CASE i \in ExitIssues
      <4>1. RequestsAbout(d, i) = {}
        BY <3>1, IssuesAssumption DEF RequestsAbout, LegalDocument, RequestPart
      <4> QED BY <2>1, <3>1, <4>1, IssuesAssumption DEF IssuePanel
    <3>2. CASE i \in LegacyIssues
      <4>1. RequestsAbout(d, i) = {} => d.issue[i] = "OPEN"
        BY <3>2 DEF RequestsAbout, LegalDocument, RequestPart
      <4>2. \A r \in RequestsAbout(d, i) :
              d.request[r].status = "INFORMATION_REQUESTED" => d.issue[i] = "ACTION_REQUIRED"
        BY <3>2, IssuesAssumption DEF RequestsAbout, LegalDocument, RequestPart, IssueStatusFor
      <4>3. i \notin ExitIssues
        BY <3>2, IssuesAssumption
      <4> QED BY <2>1, <3>2, <4>1, <4>2, <4>3 DEF IssuePanel
    <3> QED BY <3>1, <3>2 DEF Issues
  <2> HIDE DEF Taken
  <2> QED BY <2>2, <2>3, <2>4 DEF IssueActions
<1>2. MarkExitPage(d) = UNION {{o \in MarkExitPage(d) : o.on = i} : i \in Issues}
  BY DEF MarkExitPage, Offer, Issues
<1>3. MarkExitPage(d) \cup (UNION {IssuePanel(d, i) : i \in Issues}) = UNION {Shown(i) : i \in Issues}
  BY <1>2
<1> HIDE DEF Shown
<1> QED BY <1>1, <1>3

\* The reviewer's buttons are what the decision route accepts: in review every decision
\* can also be carried out on the issue the request is about.
LEMMA EmployerOffersExact ==
  ASSUME NEW d, LegalDocument(d), NEW r \in RequestIds
  PROVE  RequestPage(d, r) =
           {Offer(decision, r) : decision \in {a \in Decisions : ActOnRequest(d, r, a) # {}}}
<1> DEFINE i == d.request[r].issue
           status == d.request[r].status
<1>1. Decisions = {"START_REVIEW", "APPROVE", "REQUEST_INFORMATION", "REJECT"}
  BY DEF Decisions, TARGET_BY_DECISION
<1>2. ASSUME NEW a \in Decisions
      PROVE  ActOnRequest(d, r, a) # {} <=>
               DecideRequestOnly(d, r, a) # {} \/ DecideWithIssue(d, r, a) # {}
  BY DEF ActOnRequest
<1>3. ASSUME NEW a \in Decisions
      PROVE  CanDecide(d, r, a) <=>
               IF a = "START_REVIEW" THEN status = "AWAITING_REVIEW" ELSE status = "IN_REVIEW"
  <2>1. status \in RequestStatus \cup {"ABSENT"}
    BY DEF LegalDocument, Document, Request
  <2> QED BY <1>1, <2>1
          DEF CanDecide, CanTransitionRequest, TARGET_BY_DECISION, ReasonGiven,
              REQUEST_TRANSITIONS, RequestStatus
<1>4. ASSUME NEW a \in Decisions, a # "START_REVIEW", status = "IN_REVIEW", i # NoIssue
      PROVE  ISSUE_BY_DECISION[a] \in ISSUE_TRANSITIONS[d.issue[i]]
  <2>1. d.issue[i] = "WAITING_EXTERNAL"
    BY <1>4 DEF LegalDocument, RequestPart, IssueStatusFor
  <2> QED BY <1>1, <1>4, <2>1 DEF ISSUE_BY_DECISION, ISSUE_TRANSITIONS
<1>5. ASSUME NEW a \in Decisions
      PROVE  /\ DecideRequestOnly(d, r, a) # {} <=>
                  CanDecide(d, r, a) /\ (i = NoIssue \/ a = "START_REVIEW")
             /\ DecideWithIssue(d, r, a) # {} <=>
                  /\ CanDecide(d, r, a) /\ i # NoIssue /\ a # "START_REVIEW"
                  /\ ISSUE_BY_DECISION[a] \in ISSUE_TRANSITIONS[d.issue[i]]
  BY DEF DecideRequestOnly, DecideWithIssue, When
<1>6. ASSUME NEW a \in Decisions
      PROVE  ActOnRequest(d, r, a) # {} <=>
               IF a = "START_REVIEW" THEN status = "AWAITING_REVIEW" ELSE status = "IN_REVIEW"
  BY <1>2, <1>3, <1>4, <1>5
<1> DEFINE Taken == {a \in Decisions : ActOnRequest(d, r, a) # {}}
<1>7. Taken = IF status = "AWAITING_REVIEW" THEN {"START_REVIEW"}
              ELSE IF status = "IN_REVIEW" THEN Decisions \ {"START_REVIEW"} ELSE {}
  BY <1>1, <1>6
<1> HIDE DEF Taken
<1>8. RequestPage(d, r) = {Offer(decision, r) : decision \in Taken}
  BY <1>7 DEF RequestPage
<1> QED BY <1>8 DEF Taken

\* The review page and the demo panel's table follow the claim's sequence.
LEMMA ClaimOffersExact ==
  ASSUME NEW d, LegalDocument(d)
  PROVE  /\ ReviewPage(d) = IF SubmitClaim(d) = {} THEN {} ELSE {Offer("SUBMIT", Claim)}
         /\ DemoPanel(d) =
              {Offer(next, Claim) : next \in {s \in claimActionTargets : AdvanceClaim(d, s) # {}}}
<1>1. d.claim \in ClaimState /\ (d.claim = "DRAFT" <=> HasBlockingChecks(d))
  BY DEF LegalDocument, Document, ReadinessPart
<1>2. IsNextClaimState(d.claim, "SUBMITTED") <=> d.claim = "READY"
  BY <1>1 DEF IsNextClaimState, CLAIM_SEQUENCE, ClaimState
<1>3. SubmitClaim(d) # {} <=> d.claim = "READY"
  BY <1>1, <1>2 DEF SubmitClaim, TransitionClaim, When
<1>4. ASSUME NEW s \in claimActionTargets
      PROVE  /\ IsNextClaimState(d.claim, s) <=> claimControls[s] = d.claim
             /\ claimControls[s] # "DRAFT" /\ s # "SUBMITTED"
  BY <1>1 DEF IsNextClaimState, CLAIM_SEQUENCE, ClaimState, claimControls, claimActionTargets
<1>5. ASSUME NEW s \in claimActionTargets
      PROVE  AdvanceClaim(d, s) # {} <=> claimControls[s] = d.claim
  BY <1>1, <1>4 DEF AdvanceClaim, TransitionClaim, When
<1>6. DOMAIN claimControls = claimActionTargets
  BY DEF claimControls, claimActionTargets
<1>7. {s \in DOMAIN claimControls : claimControls[s] = d.claim} =
        {s \in claimActionTargets : AdvanceClaim(d, s) # {}}
  BY <1>5, <1>6
<1> QED BY <1>1, <1>3, <1>7 DEF ReviewPage, DemoPanel

\* No button can only fail, no accepted step is without its page, and a tab of any age
\* can do nothing that a fresh page would not offer.
THEOREM PagesOfferWhatIsAccepted == Spec => []OffersAreExact
<1>1. ASSUME Legal, SpareId(doc) PROVE Offered(doc) = Accepted(doc)
  <2> DEFINE Reviewed == UNION {RequestPage(doc, r) : r \in RequestIds}
             Decided == UNION {{Offer(decision, r) :
                           decision \in {a \in Decisions : ActOnRequest(doc, r, a) # {}}} :
                             r \in RequestIds}
  <2>1. LegalDocument(doc)
    BY <1>1 DEF Legal
  <2>2. Reviewed = Decided
    <3>1. \A r \in RequestIds :
            RequestPage(doc, r) =
              {Offer(decision, r) : decision \in {a \in Decisions : ActOnRequest(doc, r, a) # {}}}
      BY <2>1, EmployerOffersExact
    <3> QED BY <3>1
  <2> DEFINE Corrections == MarkExitPage(doc)
             Panels == UNION {IssuePanel(doc, i) : i \in Issues}
             Taken == UNION {{Offer(do, i) :
                         do \in {a \in IssueActions : IssueCommand(doc, a, i) # {}}} : i \in Issues}
             Submission == IF SubmitClaim(doc) = {} THEN {} ELSE {Offer("SUBMIT", Claim)}
             Advances == {Offer(next, Claim) :
                            next \in {s \in claimActionTargets : AdvanceClaim(doc, s) # {}}}
  <2>3. Corrections \cup Panels = Taken
    BY <1>1, <2>1, MemberOffersExact
  <2>4. ReviewPage(doc) = Submission /\ DemoPanel(doc) = Advances
    BY <2>1, ClaimOffersExact
  <2>5. Offered(doc) = Corrections \cup Panels \cup Reviewed \cup (ReviewPage(doc) \cup DemoPanel(doc))
    BY Zenon DEF Offered, ClaimOffers
  <2>6. Accepted(doc) = Taken \cup Decided \cup Submission \cup Advances
    BY Zenon DEF Accepted
  <2> HIDE DEF Reviewed, Decided, Corrections, Panels, Taken, Submission, Advances
  <2> QED BY <2>2, <2>3, <2>4, <2>5, <2>6
<1>2. Legal => OffersAreExact
  BY <1>1 DEF OffersAreExact
<1> QED BY <1>2, AlwaysLegal, PTL

\* The failed checks name the issues that are not resolved (preflight.ts against
\* the home page).
LEMMA BlockersAreActive ==
  ASSUME NEW d, LegalDocument(d)
  PROVE  Blockers(d) = ActiveIssues(d)
<1>1. PICK i \in ExitIssues, j \in LegacyIssues : ExitIssues = {i} /\ LegacyIssues = {j}
  BY OneIssueOfEachKind
<1>2. /\ d.issue[i] = "RESOLVED" <=> d.record[Related[i]].exitStatus = "VERIFIED"
      /\ d.issue[j] = "RESOLVED" <=> d.record[Related[j]].legacyRecordStatus = "ALIGNED"
      /\ Related[i] \in Employments /\ Related[j] \in Employments
  BY <1>1, IssuesAssumption DEF LegalDocument, RecordPart, Issues
<1>3. \A e \in Employments :
        /\ d.record[e].exitStatus \in {"VERIFIED", "MISSING"}
        /\ d.record[e].legacyRecordStatus \in {"ALIGNED", "REVIEW_REQUIRED"}
        /\ d.record[e].exitStatus = "MISSING" => e = Related[i]
        /\ d.record[e].legacyRecordStatus = "REVIEW_REQUIRED" => e = Related[j]
  <2>1. d.record \in [Employments -> EmploymentRecord] /\ RecordPart(d)
    BY DEF LegalDocument, Document
  <2> QED BY <1>1, <2>1 DEF RecordPart, EmploymentRecord
<1>4. ExitRecorded(d) <=> d.issue[i] = "RESOLVED"
  BY <1>2, <1>3 DEF ExitRecorded
<1>5. LegacyAligned(d) <=> d.issue[j] = "RESOLVED"
  BY <1>2, <1>3 DEF LegacyAligned
<1>6. ActiveIssues(d) = {x \in ExitIssues : d.issue[x] # "RESOLVED"}
                          \cup {x \in LegacyIssues : d.issue[x] # "RESOLVED"}
  BY DEF ActiveIssues, Issues
<1> QED BY <1>1, <1>4, <1>5, <1>6 DEF Blockers

\* Which side has the next step on an issue, by what its request says.
LEMMA OneSideActs ==
  ASSUME NEW d, LegalDocument(d), NEW i \in ActiveIssues(d),
         NEW rejected, rejected = (\E r \in RequestsAbout(d, i) : d.request[r].status = "REJECTED"),
         NEW member, member = (MemberOffers(d, i) # {}),
         NEW employer, employer = (EmployerOffers(d, i) # {})
  PROVE  /\ rejected => ~ member /\ ~ employer
         /\ ~ rejected => (member <=> ~ employer)
         /\ \A r \in RequestsAbout(d, i) :
              /\ d.request[r].status \in RequestStatus
              /\ d.request[r].status = "INFORMATION_REQUESTED" <=> member
              /\ d.request[r].status \in {"AWAITING_REVIEW", "IN_REVIEW"} <=> employer
              /\ d.request[r].status \in {"APPROVED", "REJECTED"} <=> rejected
<1>1. i \in Issues /\ d.issue[i] # "RESOLVED"
  BY DEF ActiveIssues
<1>2. CASE i \in ExitIssues
  <2>1. RequestsAbout(d, i) = {} /\ EmployerOffers(d, i) = {} /\ IssuePanel(d, i) = {}
    <3>1. RequestsAbout(d, i) = {}
      BY <1>1, <1>2, IssuesAssumption DEF RequestsAbout, LegalDocument, RequestPart
    <3>2. EmployerOffers(d, i) = {}
      BY <3>1 DEF EmployerOffers
    <3>3. IssuePanel(d, i) = {}
      BY <1>2 DEF IssuePanel
    <3> QED BY <3>1, <3>2, <3>3
  <2>2. MemberOffers(d, i) # {}
    <3>1. CASE d.issue[i] = "OPEN"
      <4>1. Offer("START_MARK_EXIT", i) \in MarkExitPage(d)
        BY <1>2, <3>1 DEF MarkExitPage
      <4> QED BY <4>1 DEF MemberOffers, Offer
    <3>2. CASE d.issue[i] # "OPEN"
      <4>1. Offer("COMPLETE_MARK_EXIT", i) \in MarkExitPage(d)
        BY <1>1, <1>2, <3>2 DEF MarkExitPage
      <4> QED BY <4>1 DEF MemberOffers, Offer
    <3> QED BY <3>1, <3>2
  <2> QED BY <2>1, <2>2
<1>3. CASE i \in LegacyIssues
  <2>1. MemberOffers(d, i) = IssuePanel(d, i) /\ i \notin ExitIssues
    BY <1>3, IssuesAssumption DEF MemberOffers, MarkExitPage, Offer
  <2>2. CASE RequestsAbout(d, i) = {}
    BY <1>1, <2>1, <2>2 DEF IssuePanel, EmployerOffers
  <2>3. CASE RequestsAbout(d, i) # {}
    <3>1. PICK r \in RequestsAbout(d, i) : TRUE
      BY <2>3
    <3>2. RequestsAbout(d, i) = {r} /\ r \in RequestIds
      BY <1>3, <3>1, IssuesAssumption DEF RequestsAbout, LegalDocument, RequestPart, Issues
    <3>3. /\ d.request[r].status \in RequestStatus
          /\ d.issue[i] = IssueStatusFor(d.request[r].status)
      <4>1. d.request[r] \in Request /\ d.request[r].issue = i /\ i # NoIssue
        BY <1>1, <3>2, IssuesAssumption DEF LegalDocument, Document, RequestsAbout
      <4>2. d.request[r].status # "ABSENT" /\ d.issue[i] = IssueStatusFor(d.request[r].status)
        BY <3>2, <4>1 DEF LegalDocument, RequestPart
      <4> QED BY <4>1, <4>2 DEF Request
    <3>4. d.request[r].status # "APPROVED"
      BY <1>1, <3>3 DEF IssueStatusFor
    <3>5. EmployerOffers(d, i) = RequestPage(d, r)
      BY <3>2 DEF EmployerOffers
    <3>6. RequestPage(d, r) # {} <=> d.request[r].status \in {"AWAITING_REVIEW", "IN_REVIEW"}
      <4>1. "APPROVE" \in Decisions \ {"START_REVIEW"}
        BY DEF Decisions, TARGET_BY_DECISION
      <4> QED BY <4>1 DEF RequestPage
    <3>7. IssuePanel(d, i) # {} <=> d.request[r].status = "INFORMATION_REQUESTED"
      BY <1>1, <2>1, <3>2 DEF IssuePanel
    <3> QED BY <2>1, <3>2, <3>3, <3>4, <3>5, <3>6, <3>7 DEF RequestStatus
  <2> QED BY <2>2, <2>3
<1> QED BY <1>1, <1>2, <1>3 DEF Issues

\* What the issue's page says of the turn.
LEMMA IssuePageSays ==
  ASSUME NEW d, LegalDocument(d), NEW i \in ActiveIssues(d),
         NEW member, member = (MemberOffers(d, i) # {}),
         NEW employer, employer = (EmployerOffers(d, i) # {})
  PROVE  /\ NothingRequired(d, i) <=> employer
         /\ WhoIsActing(d, i) = "MEMBER" <=> member /\ i \in ExitIssues
<1>1. i \in Issues
  BY DEF ActiveIssues
<1>2. CASE i \in ExitIssues
  <2>1. RequestsAbout(d, i) = {} /\ d.issue[i] # "WAITING_EXTERNAL"
    BY <1>1, <1>2, IssuesAssumption DEF RequestsAbout, LegalDocument, RequestPart
  <2>2. member /\ ~ employer
    <3>1. ~ employer
      BY <2>1 DEF EmployerOffers
    <3> QED BY <2>1, <3>1, OneSideActs
  <2> QED BY <1>2, <2>1, <2>2 DEF NothingRequired, WhoIsActing, ResponsibleParty
<1>3. CASE i \in LegacyIssues
  <2>1. i \notin ExitIssues
    BY <1>3, IssuesAssumption
  <2>2. WhoIsActing(d, i) = "EMPLOYER"
    BY <2>1 DEF WhoIsActing, ResponsibleParty
  <2>3. CASE RequestsAbout(d, i) = {}
    <3>1. d.issue[i] = "OPEN"
      BY <1>3, <2>3 DEF RequestsAbout, LegalDocument, RequestPart
    <3>2. ~ employer
      BY <2>3 DEF EmployerOffers
    <3> QED BY <2>1, <2>2, <3>1, <3>2 DEF NothingRequired
  <2>4. CASE RequestsAbout(d, i) # {}
    <3>1. PICK r \in RequestsAbout(d, i) : TRUE
      BY <2>4
    <3>2. d.issue[i] = IssueStatusFor(d.request[r].status)
      <4>1. d.request[r].issue = i /\ i # NoIssue /\ r \in RequestIds
        BY <1>1, <3>1, IssuesAssumption DEF RequestsAbout
      <4> QED BY <4>1 DEF LegalDocument, RequestPart
    <3>3. d.request[r].status \in {"AWAITING_REVIEW", "IN_REVIEW"} <=> employer
      BY OneSideActs
    <3>4. d.request[r].status \in RequestStatus
      BY OneSideActs
    <3>5. d.issue[i] = "WAITING_EXTERNAL" <=> d.request[r].status \in {"AWAITING_REVIEW", "IN_REVIEW"}
      BY <3>2, <3>4 DEF IssueStatusFor, RequestStatus
    <3> QED BY <2>1, <2>2, <3>3, <3>5 DEF NothingRequired
  <2> QED BY <2>3, <2>4
<1> QED BY <1>1, <1>2, <1>3 DEF Issues

\* The claim has one step at most, and none before the last issue is resolved.
LEMMA ClaimHasOneStep ==
  ASSUME NEW d, LegalDocument(d)
  PROVE  /\ ClaimOffers(d) = {} <=> ActiveIssues(d) # {} \/ d.claim = "CREDITED"
         /\ \A o, p \in ClaimOffers(d) : o = p
<1>1. d.claim \in ClaimState /\ (d.claim = "DRAFT" <=> HasBlockingChecks(d))
  BY DEF LegalDocument, Document, ReadinessPart
<1>2. HasBlockingChecks(d) <=> ActiveIssues(d) # {}
  <2>1. ExitIssues # {} /\ LegacyIssues # {}
    BY OneIssueOfEachKind
  <2> QED BY <2>1, BlockersAreActive DEF Blockers, HasBlockingChecks
<1> DEFINE Next_ == {s \in DOMAIN claimControls : claimControls[s] = d.claim}
<1>3. Next_ = CASE d.claim = "SUBMITTED" -> {"ELIGIBILITY_VERIFIED"}
                [] d.claim = "ELIGIBILITY_VERIFIED" -> {"RECORDS_VERIFIED"}
                [] d.claim = "RECORDS_VERIFIED" -> {"APPROVED"}
                [] d.claim = "APPROVED" -> {"PAYMENT_INSTRUCTION_CREATED"}
                [] d.claim = "PAYMENT_INSTRUCTION_CREATED" -> {"BANK_PROCESSING"}
                [] d.claim = "BANK_PROCESSING" -> {"CREDITED"}
                [] OTHER -> {}
  BY DEF claimControls
<1>4. ClaimState = {"DRAFT", "READY", "SUBMITTED", "ELIGIBILITY_VERIFIED", "RECORDS_VERIFIED",
                    "APPROVED", "PAYMENT_INSTRUCTION_CREATED", "BANK_PROCESSING", "CREDITED"}
  BY DEF ClaimState, CLAIM_SEQUENCE
<1>5. ClaimOffers(d) =
        IF d.claim = "READY" THEN {Offer("SUBMIT", Claim)} ELSE {Offer(s, Claim) : s \in Next_}
  <2>1. ReviewPage(d) = IF d.claim = "READY" THEN {Offer("SUBMIT", Claim)} ELSE {}
    BY <1>1 DEF ReviewPage
  <2>2. d.claim = "READY" => Next_ = {}
    BY <1>3
  <2> HIDE DEF Next_
  <2>3. DemoPanel(d) = {Offer(s, Claim) : s \in Next_}
    BY DEF DemoPanel, Next_
  <2> QED BY <2>1, <2>2, <2>3 DEF ClaimOffers
<1> HIDE DEF Next_
<1> QED BY <1>1, <1>2, <1>3, <1>4, <1>5

\* Whatever the parties did before, the buttons, the request's "Current owner", the
\* employer's queues and the issue page's "Nothing required" agree about the side whose
\* step is next; the issue page's "Who is acting now" names the member for a missing exit
\* and the employer for a legacy record, whoever's turn it is there.
THEOREM OneSideAlwaysHasTheTurn == Spec => []OneSideHasTheTurn
<1>1. Legal => OneSideHasTheTurn
  <2> SUFFICES ASSUME Legal PROVE OneSideHasTheTurn
    OBVIOUS
  <2>1. LegalDocument(doc)
    BY DEF Legal
  <2>2. ASSUME NEW i \in ActiveIssues(doc)
        PROVE  LET rejected == \E r \in RequestsAbout(doc, i) : doc.request[r].status = "REJECTED"
                   member == MemberOffers(doc, i) # {}
                   employer == EmployerOffers(doc, i) # {}
               IN  /\ rejected => ~ member /\ ~ employer
                   /\ ~ rejected => (member <=> ~ employer)
                   /\ \A r \in RequestsAbout(doc, i) :
                        /\ CurrentOwner(doc, r) = "MEMBER" <=> member
                        /\ r \in WaitingOnMember(doc) <=> member
                        /\ r \in NeedAction(doc) <=> employer
                        /\ r \in Processed(doc) <=> rejected
                   /\ NothingRequired(doc, i) <=> employer
                   /\ WhoIsActing(doc, i) = "MEMBER" <=> member /\ i \in ExitIssues
    <3> DEFINE rejected == \E r \in RequestsAbout(doc, i) : doc.request[r].status = "REJECTED"
               member == MemberOffers(doc, i) # {}
               employer == EmployerOffers(doc, i) # {}
    <3>1. /\ rejected => ~ member /\ ~ employer
          /\ ~ rejected => (member <=> ~ employer)
          /\ \A r \in RequestsAbout(doc, i) :
               /\ doc.request[r].status = "INFORMATION_REQUESTED" <=> member
               /\ doc.request[r].status \in {"AWAITING_REVIEW", "IN_REVIEW"} <=> employer
               /\ doc.request[r].status \in {"APPROVED", "REJECTED"} <=> rejected
      BY <2>1, OneSideActs
    <3>3. /\ NothingRequired(doc, i) <=> employer
          /\ WhoIsActing(doc, i) = "MEMBER" <=> member /\ i \in ExitIssues
      BY <2>1, IssuePageSays
    <3> HIDE DEF rejected, member, employer
    <3>2. ASSUME NEW r \in RequestsAbout(doc, i)
          PROVE  /\ CurrentOwner(doc, r) = "MEMBER" <=> member
                 /\ r \in WaitingOnMember(doc) <=> member
                 /\ r \in NeedAction(doc) <=> employer
                 /\ r \in Processed(doc) <=> rejected
      BY <3>1 DEF CurrentOwner, WaitingOnMember, NeedAction, Processed, RequestsAbout
    <3> QED BY <3>1, <3>2, <3>3 DEF rejected, member, employer
  <2> QED BY <2>1, <2>2, BlockersAreActive, ClaimHasOneStep DEF OneSideHasTheTurn
<1> QED BY <1>1, AlwaysLegal, PTL
=============================================================================
