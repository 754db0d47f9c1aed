--------------------------- MODULE ResolutionLemmas ---------------------------
(***************************************************************************)
(* Every command leaves a legal document legal.  The lemmas are about the  *)
(* document alone; the workflow and the session store both rest on them.   *)
(***************************************************************************)
EXTENDS Resolution, TLAPS

\* The claim sequence, as facts a solver can use.
LEMMA SequenceFacts ==
  /\ \A k \in 1..9 : CLAIM_SEQUENCE[k] \in ClaimState
  /\ \A k \in 1..9 : CLAIM_SEQUENCE[k] = "DRAFT" <=> k = 1
  /\ \A k, l \in 1..9 : CLAIM_SEQUENCE[k] = CLAIM_SEQUENCE[l] => k = l
  /\ CLAIM_SEQUENCE[2] = "READY" /\ CLAIM_SEQUENCE[3] = "SUBMITTED"
BY DEF CLAIM_SEQUENCE, ClaimState

\* Correcting one field of one employment leaves records, and every other field.
LEMMA RecordCorrected ==
  ASSUME NEW record \in [Employments -> EmploymentRecord], NEW x \in Employments
  PROVE  /\ [record EXCEPT ![x].exitStatus = "VERIFIED"] \in [Employments -> EmploymentRecord]
         /\ [record EXCEPT ![x].legacyRecordStatus = "ALIGNED"]
              \in [Employments -> EmploymentRecord]
         /\ \A e \in Employments :
              LET exit    == [record EXCEPT ![x].exitStatus = "VERIFIED"][e]
                  aligned == [record EXCEPT ![x].legacyRecordStatus = "ALIGNED"][e]
              IN  /\ exit.exitStatus = IF e = x THEN "VERIFIED" ELSE record[e].exitStatus
                  /\ exit.legacyRecordStatus = record[e].legacyRecordStatus
                  /\ aligned.exitStatus = record[e].exitStatus
                  /\ aligned.legacyRecordStatus =
                       IF e = x THEN "ALIGNED" ELSE record[e].legacyRecordStatus
<1>1. ASSUME NEW q \in EmploymentRecord
      PROVE  /\ [q EXCEPT !.exitStatus = "VERIFIED"] \in EmploymentRecord
             /\ [q EXCEPT !.exitStatus = "VERIFIED"].exitStatus = "VERIFIED"
             /\ [q EXCEPT !.exitStatus = "VERIFIED"].legacyRecordStatus = q.legacyRecordStatus
  BY DEF EmploymentRecord
<1>2. ASSUME NEW q \in EmploymentRecord
      PROVE  /\ [q EXCEPT !.legacyRecordStatus = "ALIGNED"] \in EmploymentRecord
             /\ [q EXCEPT !.legacyRecordStatus = "ALIGNED"].legacyRecordStatus = "ALIGNED"
             /\ [q EXCEPT !.legacyRecordStatus = "ALIGNED"].exitStatus = q.exitStatus
  BY DEF EmploymentRecord
<1> DEFINE exited  == [record[x] EXCEPT !.exitStatus = "VERIFIED"]
           aligned == [record[x] EXCEPT !.legacyRecordStatus = "ALIGNED"]
<1>3. /\ [record EXCEPT ![x].exitStatus = "VERIFIED"] = [record EXCEPT ![x] = exited]
      /\ [record EXCEPT ![x].legacyRecordStatus = "ALIGNED"] = [record EXCEPT ![x] = aligned]
  OBVIOUS
<1>4. /\ exited \in EmploymentRecord /\ exited.exitStatus = "VERIFIED"
      /\ exited.legacyRecordStatus = record[x].legacyRecordStatus
  BY <1>1
<1>5. /\ aligned \in EmploymentRecord /\ aligned.legacyRecordStatus = "ALIGNED"
      /\ aligned.exitStatus = record[x].exitStatus
  BY <1>2
<1> HIDE DEF exited, aligned
<1> QED BY <1>3, <1>4, <1>5

\* The claim moves one position along its sequence and its history grows by
\* that one entry (claim-machine.ts, transitionClaim).
LEMMA MovedTrail ==
  ASSUME NEW d \in Document, TrailPart(d),
         NEW next \in ClaimState, NEW actor \in ActorType,
         IsNextClaimState(d.claim, next),
         next = "SUBMITTED" => actor = "CITIZEN"
  PROVE  /\ ClaimMoved(d, next, actor) \in Document
         /\ TrailPart(ClaimMoved(d, next, actor))
         /\ next # "DRAFT"
<1> DEFINE e == ClaimMoved(d, next, actor)
           n == Len(d.trail)
           x == [state |-> next, actor |-> actor]
<1>1. /\ d.trail \in Seq(TrailEntry) /\ x \in TrailEntry /\ n \in 1..9
  BY DEF Document, TrailEntry, TrailPart
<1>2. PICK k \in 1..8 : CLAIM_SEQUENCE[k] = d.claim /\ CLAIM_SEQUENCE[k + 1] = next
  BY DEF IsNextClaimState
<1>3. CLAIM_SEQUENCE[k] = CLAIM_SEQUENCE[n]
  BY <1>2 DEF TrailPart
<1>4. next = CLAIM_SEQUENCE[n + 1] /\ n + 1 \in 2..9
  <2> HIDE DEF n
  <2>1. k \in 1..9 /\ n \in 1..9
    BY <1>1
  <2>2. k = n
    BY <2>1, <1>3, SequenceFacts
  <2> QED BY <2>2, <1>2
<1>5. e.trail = Append(d.trail, x) /\ e.claim = next /\ e \in Document
  <2>1. Append(d.trail, x) \in Seq(TrailEntry)
    BY <1>1
  <2>2. e = [d EXCEPT !.claim = next, !.trail = Append(d.trail, x)]
    BY DEF ClaimMoved
  <2> HIDE DEF x, e
  <2> QED BY <2>1, <2>2 DEF Document
<1>6. /\ Len(e.trail) = n + 1
      /\ \A m \in 1..n : e.trail[m] = d.trail[m]
      /\ e.trail[n + 1] = x
  BY <1>1, <1>5
<1>7. \A m \in 1..(n + 1) : e.trail[m].state = CLAIM_SEQUENCE[m]
  <2> TAKE m \in 1..(n + 1)
  <2>1. CASE m \in 1..n
    BY <2>1, <1>6 DEF TrailPart
  <2>2. CASE m = n + 1
    BY <2>2, <1>6, <1>4
  <2> QED BY <2>1, <2>2, <1>1
<1>8. n + 1 >= 3 => e.trail[3].actor = "CITIZEN"
  <2>1. CASE n + 1 = 3
    <3>1. next = "SUBMITTED"
      BY <2>1, <1>4, SequenceFacts
    <3> QED BY <3>1, <2>1, <1>6
  <2>2. CASE n >= 3
    BY <2>2, <1>1, <1>6 DEF TrailPart
  <2> QED BY <2>1, <2>2, <1>1
<1>9. TrailPart(e)
  BY <1>4, <1>5, <1>6, <1>7, <1>8 DEF TrailPart
<1>10. next # "DRAFT"
  BY <1>4, SequenceFacts
<1> QED BY <1>5, <1>9, <1>10

\* Moving the claim leaves the rest of the document alone.
LEMMA MovedFrame ==
  ASSUME NEW d \in Document, NEW next \in ClaimState, NEW actor \in ActorType
  PROVE  LET e == ClaimMoved(d, next, actor)
         IN  /\ e.issue = d.issue /\ e.record = d.record /\ e.request = d.request
             /\ e.claim = next
             /\ RecordPart(e) <=> RecordPart(d)
             /\ RequestPart(e) <=> RequestPart(d)
             /\ ExplanationPart(e) <=> ExplanationPart(d)
             /\ HasBlockingChecks(e) <=> HasBlockingChecks(d)
<1> DEFINE e == ClaimMoved(d, next, actor)
<1>1. e.issue = d.issue /\ e.record = d.record /\ e.request = d.request /\ e.claim = next
  BY DEF ClaimMoved, Document
<1> HIDE DEF e
<1>2. RecordPart(e) <=> RecordPart(d)
  BY <1>1 DEF RecordPart
<1>3. RequestPart(e) <=> RequestPart(d)
  BY <1>1 DEF RequestPart
<1>4. ExplanationPart(e) <=> ExplanationPart(d)
  BY <1>1 DEF ExplanationPart
<1>5. HasBlockingChecks(e) <=> HasBlockingChecks(d)
  BY <1>1 DEF HasBlockingChecks, ExitRecorded, LegacyAligned
<1> QED BY <1>1, <1>2, <1>3, <1>4, <1>5 DEF e

\* A transition the claim machine accepts (claim-machine.ts, transitionClaim).
LEMMA TransitionLegal ==
  ASSUME NEW d, LegalDocument(d), NEW next \in ClaimState, NEW confirmed \in BOOLEAN,
         NEW actor \in ActorType, next = "SUBMITTED" => actor = "CITIZEN"
  PROVE  \A e \in TransitionClaim(d, next, confirmed, actor) : LegalDocument(e)
<1> SUFFICES ASSUME IsNextClaimState(d.claim, next),
                    d.claim = "DRAFT" => ~ HasBlockingChecks(d)
             PROVE  LegalDocument(ClaimMoved(d, next, actor))
  BY DEF TransitionClaim, When
<1> DEFINE e == ClaimMoved(d, next, actor)
<1>1. d \in Document /\ TrailPart(d) /\ ReadinessPart(d)
  BY DEF LegalDocument
<1>2. e \in Document /\ TrailPart(e) /\ next # "DRAFT"
  BY <1>1, MovedTrail
<1>3. /\ RecordPart(e) /\ RequestPart(e) /\ ExplanationPart(e)
      /\ e.claim = next
      /\ HasBlockingChecks(e) <=> HasBlockingChecks(d)
  BY <1>1, MovedFrame DEF LegalDocument
<1>4. ~ HasBlockingChecks(d)
  BY <1>1 DEF ReadinessPart
<1>5. ReadinessPart(e)
  BY <1>2, <1>3, <1>4 DEF ReadinessPart
<1> QED BY <1>2, <1>3, <1>5 DEF LegalDocument

\* Synchronising after a correction restores the agreement of claim and
\* preflight (epfo-service.ts, synchronizeClaimReadiness).
LEMMA SynchronizeLegal ==
  ASSUME NEW d \in Document, RecordPart(d), RequestPart(d), ExplanationPart(d),
         TrailPart(d), d.claim # "DRAFT" => ~ HasBlockingChecks(d)
  PROVE  LegalDocument(SynchronizeClaimReadiness(d))
<1>1. CASE d.claim = "DRAFT" /\ ~ HasBlockingChecks(d)
  <2> DEFINE e == ClaimMoved(d, "READY", "SYSTEM")
  <2>1. IsNextClaimState(d.claim, "READY")
    BY <1>1 DEF IsNextClaimState, CLAIM_SEQUENCE
  <2>2. "READY" \in ClaimState /\ "SYSTEM" \in ActorType
    BY SequenceFacts DEF ActorType
  <2>3. e \in Document /\ TrailPart(e)
    BY <2>1, <2>2, MovedTrail
  <2>4. /\ RecordPart(e) /\ RequestPart(e) /\ ExplanationPart(e)
        /\ e.claim = "READY"
        /\ HasBlockingChecks(e) <=> HasBlockingChecks(d)
    BY <2>2, MovedFrame
  <2>5. ReadinessPart(e)
    BY <1>1, <2>4 DEF ReadinessPart
  <2>6. SynchronizeClaimReadiness(d) = e
    BY <1>1 DEF SynchronizeClaimReadiness
  <2> QED BY <2>3, <2>4, <2>5, <2>6 DEF LegalDocument
<1>2. CASE ~ (d.claim = "DRAFT" /\ ~ HasBlockingChecks(d))
  BY <1>2 DEF SynchronizeClaimReadiness, LegalDocument, ReadinessPart
<1> QED BY <1>1, <1>2

\* The claim commands (epfo-service.ts, submitClaim and advanceClaim).
LEMMA ClaimCommandsLegal ==
  ASSUME NEW d, LegalDocument(d)
  PROVE  /\ \A e \in SubmitClaim(d) : LegalDocument(e)
         /\ \A next \in claimActionTargets : \A e \in AdvanceClaim(d, next) : LegalDocument(e)
<1>1. \A e \in SubmitClaim(d) : LegalDocument(e)
  <2>1. "SUBMITTED" \in ClaimState /\ "CITIZEN" \in ActorType
    BY SequenceFacts DEF ActorType
  <2> QED BY <2>1, TransitionLegal DEF SubmitClaim
<1>2. ASSUME NEW next \in claimActionTargets
      PROVE  \A e \in AdvanceClaim(d, next) : LegalDocument(e)
  <2>1. next \in ClaimState /\ next # "SUBMITTED"
    BY DEF claimActionTargets, ClaimState, CLAIM_SEQUENCE
  <2>2. ActorByState(next) \in ActorType
    BY DEF ActorByState, ActorType
  <2> QED BY <2>1, <2>2, TransitionLegal DEF AdvanceClaim
<1> QED BY <1>1, <1>2

\* Starting Mark Exit (member-self-service-adapter.ts, startMarkExit).
LEMMA StartMarkExitLegal ==
  ASSUME NEW d, LegalDocument(d), NEW i \in Issues
  PROVE  \A e \in StartMarkExit(d, i) : LegalDocument(e)
<1> DEFINE e == [d EXCEPT !.issue[i] = "ACTION_REQUIRED"]
<1> SUFFICES ASSUME i \in ExitIssues, "ACTION_REQUIRED" \in ISSUE_TRANSITIONS[d.issue[i]]
             PROVE  LegalDocument(e)
  BY DEF StartMarkExit, When
<1>1. d \in Document
  BY DEF LegalDocument
<1>2. d.issue[i] # "RESOLVED"
  BY DEF ISSUE_TRANSITIONS
<1>3. /\ e \in Document
      /\ e.issue = [d.issue EXCEPT ![i] = "ACTION_REQUIRED"]
      /\ e.record = d.record /\ e.request = d.request
      /\ e.claim = d.claim /\ e.trail = d.trail
  BY <1>1 DEF Document, IssueStatus
<1>4. \A j \in Issues : e.issue[j] = IF j = i THEN "ACTION_REQUIRED" ELSE d.issue[j]
  BY <1>1, <1>3 DEF Document
<1> HIDE DEF e
<1>5. RecordPart(e)
  BY <1>2, <1>3, <1>4 DEF LegalDocument, RecordPart, Issues
<1>6. RequestPart(e)
  <2>1. i \notin LegacyIssues
    BY IssuesAssumption
  <2> QED BY <2>1, <1>3, <1>4 DEF LegalDocument, RequestPart, Issues
<1>7. ExplanationPart(e) /\ ReadinessPart(e) /\ TrailPart(e)
  BY <1>3 DEF LegalDocument, ExplanationPart, ReadinessPart, TrailPart,
              HasBlockingChecks, ExitRecorded, LegacyAligned
<1> QED BY <1>3, <1>5, <1>6, <1>7 DEF LegalDocument

\* Completing Mark Exit corrects the record, resolves its issue and lets the
\* claim catch up (member-self-service-adapter.ts, completeMarkExit).
LEMMA CompleteMarkExitLegal ==
  ASSUME NEW d, LegalDocument(d), NEW i \in Issues
  PROVE  \A e \in CompleteMarkExit(d, i) : LegalDocument(e)
<1> DEFINE e == [d EXCEPT !.issue[i] = "RESOLVED",
                          !.record[Related[i]].exitStatus = "VERIFIED"]
<1> SUFFICES ASSUME i \in ExitIssues, d.issue[i] = "ACTION_REQUIRED"
             PROVE  LegalDocument(SynchronizeClaimReadiness(e))
  BY DEF CompleteMarkExit, When
<1>1. d \in Document /\ Related[i] \in Employments /\ i \notin LegacyIssues
  BY IssuesAssumption DEF LegalDocument, Issues
<1>2. /\ e \in Document
      /\ e.request = d.request /\ e.claim = d.claim /\ e.trail = d.trail
  <2> DEFINE corrected == [d.record EXCEPT ![Related[i]].exitStatus = "VERIFIED"]
             resolved == [d.issue EXCEPT ![i] = "RESOLVED"]
  <2>1. resolved \in [Issues -> IssueStatus]
    BY <1>1 DEF Document, IssueStatus
  <2>2. d.record \in [Employments -> EmploymentRecord] /\ Related[i] \in Employments
    BY <1>1, IssuesAssumption DEF Document
  <2>3. corrected \in [Employments -> EmploymentRecord]
    BY <2>2, RecordCorrected
  <2>4. e = [d EXCEPT !.issue = resolved, !.record = corrected]
    BY <1>1 DEF Document
  <2> HIDE DEF e, corrected, resolved
  <2> QED BY <1>1, <2>1, <2>3, <2>4 DEF Document
<1>3. \A j \in Issues : e.issue[j] = IF j = i THEN "RESOLVED" ELSE d.issue[j]
  BY <1>1 DEF Document
<1>4. \A x \in Employments :
        /\ e.record[x].exitStatus =
             IF x = Related[i] THEN "VERIFIED" ELSE d.record[x].exitStatus
        /\ e.record[x].legacyRecordStatus = d.record[x].legacyRecordStatus
  BY <1>1 DEF Document, EmploymentRecord
<1> HIDE DEF e
<1>5. RecordPart(e)
  BY <1>1, <1>3, <1>4, IssuesAssumption DEF LegalDocument, RecordPart, Issues
<1>6. RequestPart(e)
  BY <1>1, <1>2, <1>3 DEF LegalDocument, RequestPart, Issues
<1>7. ExplanationPart(e) /\ TrailPart(e)
  BY <1>2 DEF LegalDocument, ExplanationPart, TrailPart
<1>8. e.claim # "DRAFT" => ~ HasBlockingChecks(e)
  BY <1>2, <1>4 DEF LegalDocument, ReadinessPart, HasBlockingChecks, ExitRecorded, LegacyAligned
<1> QED BY <1>2, <1>5, <1>6, <1>7, <1>8, SynchronizeLegal

\* A new employer request takes its issue to the employer
\* (employer-workflow-adapter.ts, createRequest).
LEMMA CreateRequestLegal ==
  ASSUME NEW d, LegalDocument(d), NEW i \in Issues, NEW r \in RequestIds
  PROVE  \A e \in CreateRequest(d, i, r) : LegalDocument(e)
<1> DEFINE q == [issue |-> i, status |-> "AWAITING_REVIEW", explained |-> FALSE,
                 exitShown |-> d.record[Related[i]].exitStatus = "VERIFIED"]
           e == [d EXCEPT !.issue[i] = ProgressedToWaiting(@), !.request[r] = q]
<1> SUFFICES ASSUME i \in LegacyIssues,
                    \A p \in RequestIds : d.request[p].issue # i,
                    d.request[r].status = "ABSENT"
             PROVE  LegalDocument(e)
  BY DEF CreateRequest, When
<1>1. d \in Document /\ i \notin ExitIssues /\ i # NoIssue
  BY IssuesAssumption DEF LegalDocument, Issues
<1>2. d.issue[i] = "OPEN"
  BY DEF LegalDocument, RequestPart
<1>3. q \in Request
  BY DEF Request, RequestStatus
<1>4. e = [d EXCEPT !.issue[i] = "WAITING_EXTERNAL", !.request[r] = q]
  BY <1>1, <1>2 DEF ProgressedToWaiting, Document
<1> HIDE DEF q, e
<1>5. /\ e \in Document
      /\ e.record = d.record /\ e.claim = d.claim /\ e.trail = d.trail
  BY <1>1, <1>3, <1>4 DEF Document, IssueStatus
<1>6. \A j \in Issues : e.issue[j] = IF j = i THEN "WAITING_EXTERNAL" ELSE d.issue[j]
  BY <1>1, <1>4 DEF Document
<1>7. \A p \in RequestIds : e.request[p] = IF p = r THEN q ELSE d.request[p]
  BY <1>1, <1>4 DEF Document
<1>8. q.issue = i /\ q.status = "AWAITING_REVIEW" /\ q.explained = FALSE
  BY DEF q
<1>9. d.request[r].issue = NoIssue
  BY DEF LegalDocument, RequestPart
<1>10. RecordPart(e)
  BY <1>1, <1>2, <1>5, <1>6 DEF LegalDocument, RecordPart, Issues
<1>11. RequestPart(e)
  <2>1. \A p \in RequestIds :
          e.request[p].issue # NoIssue =>
            /\ e.request[p].issue \in LegacyIssues
            /\ e.request[p].status # "ABSENT"
            /\ e.issue[e.request[p].issue] = IssueStatusFor(e.request[p].status)
    <3> SUFFICES ASSUME NEW p \in RequestIds, e.request[p].issue # NoIssue
                 PROVE  /\ e.request[p].issue \in LegacyIssues
                        /\ e.request[p].status # "ABSENT"
                        /\ e.issue[e.request[p].issue] = IssueStatusFor(e.request[p].status)
      OBVIOUS
    <3>1. CASE p = r
      BY <3>1, <1>6, <1>7, <1>8 DEF IssueStatusFor, Issues
    <3>2. CASE p # r
      <4>1. e.request[p] = d.request[p] /\ d.request[p].issue # i
        BY <3>2, <1>7
      <4>2. /\ d.request[p].issue \in LegacyIssues
            /\ d.request[p].status # "ABSENT"
            /\ d.issue[d.request[p].issue] = IssueStatusFor(d.request[p].status)
        BY <4>1 DEF LegalDocument, RequestPart
      <4> QED BY <4>1, <4>2, <1>6 DEF Issues
    <3> QED BY <3>1, <3>2
  <2>2. \A j \in LegacyIssues :
          (\A p \in RequestIds : e.request[p].issue # j) => e.issue[j] = "OPEN"
    BY <1>6, <1>7, <1>8, <1>9, IssuesAssumption DEF LegalDocument, RequestPart, Issues
  <2>3. \A j \in ExitIssues : e.issue[j] \in {"OPEN", "ACTION_REQUIRED", "RESOLVED"}
    BY <1>1, <1>6 DEF LegalDocument, RequestPart, Issues
  <2>4. \A p, t \in RequestIds :
          e.request[p].issue = e.request[t].issue /\ e.request[p].issue # NoIssue => p = t
    BY <1>7, <1>8 DEF LegalDocument, RequestPart
  <2> QED BY <2>1, <2>2, <2>3, <2>4 DEF RequestPart
<1>12. ExplanationPart(e)
  BY <1>7, <1>8 DEF LegalDocument, ExplanationPart
<1>13. ReadinessPart(e) /\ TrailPart(e)
  BY <1>5 DEF LegalDocument, ReadinessPart, TrailPart, HasBlockingChecks, ExitRecorded,
              LegacyAligned
<1> QED BY <1>5, <1>10, <1>11, <1>12, <1>13 DEF LegalDocument

\* A request that takes a new status is a request, and the others stay.
LEMMA RequestUpdated ==
  ASSUME NEW requests \in [RequestIds -> Request], NEW r \in RequestIds,
         NEW next \in RequestStatus, NEW explained \in BOOLEAN
  PROVE  LET updated == [requests EXCEPT ![r].status = next, ![r].explained = explained]
             q == [requests[r] EXCEPT !.status = next, !.explained = explained]
         IN  /\ q \in Request /\ updated \in [RequestIds -> Request]
             /\ \A p \in RequestIds : updated[p] = IF p = r THEN q ELSE requests[p]
<1> DEFINE q == [requests[r] EXCEPT !.status = next, !.explained = explained]
           updated == [requests EXCEPT ![r].status = next, ![r].explained = explained]
<1>1. \A x \in Request : [x EXCEPT !.status = next, !.explained = explained] \in Request
  BY DEF Request
<1>2. q \in Request
  BY <1>1
<1>3. updated = [requests EXCEPT ![r] = q]
  BY DEF Request
<1> HIDE DEF q, updated
<1>4. updated \in [RequestIds -> Request] /\ \A p \in RequestIds : updated[p] = IF p = r THEN q ELSE requests[p]
  BY <1>2, <1>3
<1> QED BY <1>2, <1>4 DEF q, updated

\* From d to e, request r takes the status next and its issue, if it has one,
\* the status that goes with it.
RequestTakes(d, e, r, next, explained) ==
  /\ \A p \in RequestIds :
       e.request[p] = IF p = r THEN [d.request[r] EXCEPT !.status = next,
                                                        !.explained = explained]
                               ELSE d.request[p]
  /\ \A j \in Issues :
       e.issue[j] = IF j = d.request[r].issue THEN IssueStatusFor(next) ELSE d.issue[j]

\* When a request takes a new status and its issue takes the status that goes
\* with it, the two machines stay in step.
LEMMA RequestStaysInStep ==
  ASSUME NEW d \in Document, RequestPart(d), ExplanationPart(d),
         NEW r \in RequestIds, d.request[r].status # "ABSENT",
         NEW next \in RequestStatus, NEW explained \in BOOLEAN,
         explained <=> next \in {"INFORMATION_REQUESTED", "REJECTED"},
         NEW e \in Document, RequestTakes(d, e, r, next, explained)
  PROVE  RequestPart(e) /\ ExplanationPart(e)
<1> DEFINE q == [d.request[r] EXCEPT !.status = next, !.explained = explained]
<1>1. q.issue = d.request[r].issue /\ q.status = next /\ q.explained = explained
  BY DEF Document, Request
<1>2. /\ \A p \in RequestIds : e.request[p] = IF p = r THEN q ELSE d.request[p]
      /\ \A j \in Issues :
           e.issue[j] = IF j = d.request[r].issue THEN IssueStatusFor(next) ELSE d.issue[j]
  BY DEF RequestTakes
<1>3. next # "ABSENT"
  BY DEF RequestStatus
<1> HIDE DEF q
<1>4. \A p \in RequestIds : e.request[p].issue = d.request[p].issue
  BY <1>1, <1>2
<1>5. \A p \in RequestIds :
        e.request[p].issue # NoIssue =>
          /\ e.request[p].issue \in LegacyIssues
          /\ e.request[p].status # "ABSENT"
          /\ e.issue[e.request[p].issue] = IssueStatusFor(e.request[p].status)
  <2> SUFFICES ASSUME NEW p \in RequestIds, e.request[p].issue # NoIssue
               PROVE  /\ e.request[p].issue \in LegacyIssues
                      /\ e.request[p].status # "ABSENT"
                      /\ e.issue[e.request[p].issue] = IssueStatusFor(e.request[p].status)
    OBVIOUS
  <2>1. d.request[p].issue # NoIssue /\ d.request[p].issue \in LegacyIssues
    BY <1>4 DEF RequestPart
  <2>2. CASE p = r
    <3>1. e.request[p] = q /\ e.issue[d.request[r].issue] = IssueStatusFor(next)
      BY <2>1, <2>2, <1>2 DEF Issues
    <3> QED BY <3>1, <2>1, <2>2, <1>1, <1>3, <1>4
  <2>3. CASE p # r
    <3>1. d.request[p].issue # d.request[r].issue
      BY <2>1, <2>3 DEF RequestPart
    <3>2. e.request[p] = d.request[p] /\ e.issue[d.request[p].issue] = d.issue[d.request[p].issue]
      BY <2>1, <2>3, <3>1, <1>2 DEF Issues
    <3>3. /\ d.request[p].status # "ABSENT"
          /\ d.issue[d.request[p].issue] = IssueStatusFor(d.request[p].status)
      BY <2>1 DEF RequestPart
    <3> QED BY <3>2, <3>3, <2>1
  <2> QED BY <2>2, <2>3
<1>6. \A j \in LegacyIssues :
        (\A p \in RequestIds : e.request[p].issue # j) => e.issue[j] = "OPEN"
  BY <1>2, <1>4 DEF RequestPart, Issues
<1>7. \A j \in ExitIssues : e.issue[j] \in {"OPEN", "ACTION_REQUIRED", "RESOLVED"}
  <2> TAKE j \in ExitIssues
  <2>1. j # d.request[r].issue
    BY IssuesAssumption DEF RequestPart, Issues
  <2> QED BY <2>1, <1>2 DEF RequestPart, Issues
<1>8. \A p, t \in RequestIds :
        e.request[p].issue = e.request[t].issue /\ e.request[p].issue # NoIssue => p = t
  BY <1>4 DEF RequestPart
<1>9. ExplanationPart(e)
  BY <1>1, <1>2 DEF ExplanationPart
<1> QED BY <1>5, <1>6, <1>7, <1>8, <1>9 DEF RequestPart

\* A decision changes the request alone, or leaves its issue waiting: a request
\* about another member, or the start of a review (decide, early return).
LEMMA DecideRequestOnlyLegal ==
  ASSUME NEW d, LegalDocument(d), NEW r \in RequestIds, NEW decision \in Decisions
  PROVE  \A e \in DecideRequestOnly(d, r, decision) : LegalDocument(e)
<1> DEFINE next == TARGET_BY_DECISION[decision]
           explained == ReasonGiven(decision)
           e == [d EXCEPT !.request[r].status = next, !.request[r].explained = explained]
           i == d.request[r].issue
<1> SUFFICES ASSUME CanDecide(d, r, decision), i = NoIssue \/ decision = "START_REVIEW"
             PROVE  LegalDocument(e)
  BY DEF DecideRequestOnly, When, RequestDecided, RequestMoved
<1>1. d \in Document
  BY DEF LegalDocument
<1>2. d.request[r].status # "ABSENT" /\ next \in REQUEST_TRANSITIONS[d.request[r].status]
  BY DEF CanDecide, CanTransitionRequest
<1>3. /\ next \in RequestStatus /\ explained \in BOOLEAN
      /\ explained <=> next \in {"INFORMATION_REQUESTED", "REJECTED"}
  BY DEF TARGET_BY_DECISION, Decisions, RequestStatus, ReasonGiven
<1>4. /\ e \in Document /\ e.issue = d.issue
      /\ e.record = d.record /\ e.claim = d.claim /\ e.trail = d.trail
  <2> DEFINE requests == [d.request EXCEPT ![r].status = next, ![r].explained = explained]
  <2>1. d.request \in [RequestIds -> Request]
    BY <1>1 DEF Document
  <2> HIDE DEF next, explained
  <2>2. requests \in [RequestIds -> Request]
    BY <2>1, <1>3, RequestUpdated
  <2>3. e = [d EXCEPT !.request = requests]
    BY <1>1 DEF Document
  <2> HIDE DEF e, requests
  <2> QED BY <1>1, <2>2, <2>3 DEF Document
<1>5. \A p \in RequestIds :
        e.request[p] = IF p = r THEN [d.request[r] EXCEPT !.status = next,
                                                          !.explained = explained]
                                ELSE d.request[p]
  BY <1>1 DEF Document, Request
<1>6. \A j \in Issues : e.issue[j] = IF j = i THEN IssueStatusFor(next) ELSE d.issue[j]
  <2>1. CASE i = NoIssue
    BY <2>1, <1>4, IssuesAssumption
  <2>2. CASE i # NoIssue
    <3>1. next = "IN_REVIEW" /\ d.request[r].status = "AWAITING_REVIEW"
      BY <2>2, <1>1, <1>2 DEF TARGET_BY_DECISION, REQUEST_TRANSITIONS, Document, Request, RequestStatus
    <3>2. d.issue[i] = IssueStatusFor("AWAITING_REVIEW")
      BY <2>2, <3>1 DEF LegalDocument, RequestPart
    <3>3. IssueStatusFor("AWAITING_REVIEW") = IssueStatusFor("IN_REVIEW")
      BY DEF IssueStatusFor
    <3> QED BY <1>4, <3>1, <3>2, <3>3
  <2> QED BY <2>1, <2>2
<1> HIDE DEF e, next, explained, i
<1>7. RequestPart(e) /\ ExplanationPart(e)
  <2>1. RequestPart(d) /\ ExplanationPart(d)
    BY DEF LegalDocument
  <2>2. RequestTakes(d, e, r, next, explained)
    BY <1>5, <1>6 DEF RequestTakes, i
  <2> QED BY <2>1, <2>2, <1>1, <1>2, <1>3, <1>4, RequestStaysInStep
<1>8. RecordPart(e) /\ ReadinessPart(e) /\ TrailPart(e)
  BY <1>4 DEF LegalDocument, RecordPart, ReadinessPart, TrailPart, HasBlockingChecks,
              ExitRecorded, LegacyAligned
<1> QED BY <1>4, <1>7, <1>8 DEF LegalDocument

\* A request and the issue it is about, moved in one command.
MovedWithIssue(d, r, next, explained) ==
  [RequestMoved(d, r, next, explained)
     EXCEPT !.issue[d.request[r].issue] = IssueStatusFor(next)]

\* The document after one request and its issue moved together.
LEMMA MovedTogether ==
  ASSUME NEW d, LegalDocument(d), NEW r \in RequestIds, NEW next \in RequestStatus,
         NEW explained \in BOOLEAN, d.request[r].issue \in Issues,
         NEW e, e = MovedWithIssue(d, r, next, explained)
  PROVE  /\ e \in Document /\ RequestTakes(d, e, r, next, explained)
         /\ e.record = d.record /\ e.claim = d.claim /\ e.trail = d.trail
<1> DEFINE i == d.request[r].issue
           requests == [d.request EXCEPT ![r].status = next, ![r].explained = explained]
           issues == [d.issue EXCEPT ![i] = IssueStatusFor(next)]
<1>1. d \in Document /\ i \in Issues
  BY DEF LegalDocument
<1>2. d.request \in [RequestIds -> Request]
  BY <1>1 DEF Document
<1>3. requests \in [RequestIds -> Request]
  BY <1>2, RequestUpdated
<1>4. issues \in [Issues -> IssueStatus]
  BY <1>1 DEF Document, IssueStatus, IssueStatusFor
<1>5. e = [d EXCEPT !.request = requests, !.issue = issues]
  BY <1>1 DEF Document, RequestMoved, MovedWithIssue
<1>6. /\ \A p \in RequestIds :
           requests[p] = IF p = r THEN [d.request[r] EXCEPT !.status = next,
                                                           !.explained = explained]
                                  ELSE d.request[p]
      /\ \A j \in Issues :
           issues[j] = IF j = d.request[r].issue THEN IssueStatusFor(next) ELSE d.issue[j]
  BY <1>1 DEF Document, Request
<1> HIDE DEF requests, issues
<1>7. /\ e \in Document /\ e.request = requests /\ e.issue = issues
      /\ e.record = d.record /\ e.claim = d.claim /\ e.trail = d.trail
  BY <1>1, <1>3, <1>4, <1>5 DEF Document
<1> QED BY <1>6, <1>7 DEF RequestTakes

\* A decision that is passed on to the member's issue; an approval also aligns
\* the record and lets the claim catch up (decide and actOnEmployerRequest).
LEMMA DecideWithIssueLegal ==
  ASSUME NEW d, LegalDocument(d), NEW r \in RequestIds, NEW decision \in Decisions
  PROVE  \A e \in DecideWithIssue(d, r, decision) :
           LegalDocument(IF decision = "APPROVE" THEN SynchronizeClaimReadiness(e) ELSE e)
<1> DEFINE i == d.request[r].issue
           next == TARGET_BY_DECISION[decision]
           explained == ReasonGiven(decision)
           moved == RequestDecided(d, r, decision)
           plain == [moved EXCEPT !.issue[i] = ISSUE_BY_DECISION[decision]]
           aligned == [moved EXCEPT !.issue[i] = "RESOLVED",
                                    !.record[Related[i]].legacyRecordStatus = "ALIGNED"]
<1> SUFFICES ASSUME CanDecide(d, r, decision), i # NoIssue, decision # "START_REVIEW",
                    ISSUE_BY_DECISION[decision] \in ISSUE_TRANSITIONS[d.issue[i]]
             PROVE  IF decision = "APPROVE" THEN LegalDocument(SynchronizeClaimReadiness(aligned))
                                            ELSE LegalDocument(plain)
  BY DEF DecideWithIssue, When
<1>1. d \in Document /\ i \in Issues /\ i \in LegacyIssues /\ i \notin ExitIssues
  BY IssuesAssumption DEF LegalDocument, RequestPart, Issues
<1>2. d.request[r].status # "ABSENT" /\ d.issue[i] # "RESOLVED"
  BY DEF CanDecide, CanTransitionRequest, ISSUE_TRANSITIONS
<1>3. /\ next \in RequestStatus /\ explained \in BOOLEAN
      /\ explained <=> next \in {"INFORMATION_REQUESTED", "REJECTED"}
      /\ ISSUE_BY_DECISION[decision] = IssueStatusFor(next)
  BY DEF TARGET_BY_DECISION, Decisions, RequestStatus, ReasonGiven, ISSUE_BY_DECISION,
         IssueStatusFor
<1>4. plain = MovedWithIssue(d, r, next, explained) /\ d.request[r].issue \in Issues
  BY <1>1, <1>3 DEF RequestDecided, MovedWithIssue
<1> HIDE DEF next, explained, plain
<1>5. /\ plain \in Document /\ RequestTakes(d, plain, r, next, explained)
      /\ plain.record = d.record /\ plain.claim = d.claim /\ plain.trail = d.trail
  BY <1>1, <1>3, <1>4, MovedTogether
<1>6. RequestPart(plain) /\ ExplanationPart(plain)
  <2>1. RequestPart(d) /\ ExplanationPart(d)
    BY DEF LegalDocument
  <2> QED BY <2>1, <1>1, <1>2, <1>3, <1>5, RequestStaysInStep
<1>7. \A j \in Issues : plain.issue[j] = IF j = i THEN IssueStatusFor(next) ELSE d.issue[j]
  BY <1>5 DEF RequestTakes
<1>8. CASE decision # "APPROVE"
  <2>1. IssueStatusFor(next) # "RESOLVED"
    BY <1>8, <1>3 DEF ISSUE_BY_DECISION, Decisions, TARGET_BY_DECISION
  <2>2. RecordPart(plain)
    BY <2>1, <1>2, <1>5, <1>7 DEF LegalDocument, RecordPart, Issues
  <2>3. ReadinessPart(plain) /\ TrailPart(plain)
    BY <1>5 DEF LegalDocument, ReadinessPart, TrailPart, HasBlockingChecks, ExitRecorded,
                LegacyAligned
  <2> QED BY <1>8, <1>5, <1>6, <2>2, <2>3 DEF LegalDocument
<1>9. CASE decision = "APPROVE"
  <2> DEFINE record == [d.record EXCEPT ![Related[i]].legacyRecordStatus = "ALIGNED"]
  <2>1. Related[i] \in Employments
    BY <1>1, IssuesAssumption
  <2>2. d.record \in [Employments -> EmploymentRecord]
    BY <1>1 DEF Document
  <2>3. record \in [Employments -> EmploymentRecord]
    BY <2>1, <2>2, RecordCorrected
  <2>4. /\ IssueStatusFor(next) = "RESOLVED"
        /\ plain = [moved EXCEPT !.issue[i] = "RESOLVED"]
    BY <1>9, <1>3 DEF ISSUE_BY_DECISION, plain
  <2>5. aligned = [plain EXCEPT !.record = record]
    BY <2>4, <1>5
  <2>6. \A x \in Employments :
          /\ record[x].legacyRecordStatus =
               IF x = Related[i] THEN "ALIGNED" ELSE d.record[x].legacyRecordStatus
          /\ record[x].exitStatus = d.record[x].exitStatus
    BY <2>1, <2>2, RecordCorrected
  <2> HIDE DEF record, aligned
  <2>7. /\ aligned \in Document /\ aligned.record = record
        /\ aligned.issue = plain.issue /\ aligned.request = plain.request
        /\ aligned.claim = d.claim /\ aligned.trail = d.trail
    BY <2>3, <2>5, <1>5 DEF Document
  <2>8. RecordPart(aligned)
    BY <2>1, <2>4, <2>6, <2>7, <1>1, <1>7, IssuesAssumption DEF LegalDocument, RecordPart, Issues
  <2>9. RequestPart(aligned) /\ ExplanationPart(aligned) /\ TrailPart(aligned)
    BY <2>7, <1>6 DEF LegalDocument, RequestPart, ExplanationPart, TrailPart
  <2>10. aligned.claim # "DRAFT" => ~ HasBlockingChecks(aligned)
    BY <2>6, <2>7 DEF LegalDocument, ReadinessPart, HasBlockingChecks, ExitRecorded, LegacyAligned
  <2> QED BY <1>9, <2>7, <2>8, <2>9, <2>10, SynchronizeLegal
<1> QED BY <1>8, <1>9

\* A decision on a request (epfo-service.ts, actOnEmployerRequest).
LEMMA ActOnRequestLegal ==
  ASSUME NEW d, LegalDocument(d), NEW r \in RequestIds, NEW decision \in Decisions
  PROVE  \A e \in ActOnRequest(d, r, decision) : LegalDocument(e)
<1>1. ASSUME NEW e \in DecideRequestOnly(d, r, decision)
      PROVE  LegalDocument(IF decision = "APPROVE" THEN SynchronizeClaimReadiness(e) ELSE e)
  <2>1. LegalDocument(e)
    BY DecideRequestOnlyLegal
  <2>2. LegalDocument(SynchronizeClaimReadiness(e))
    BY <2>1, SynchronizeLegal DEF LegalDocument, ReadinessPart
  <2> QED BY <2>1, <2>2
<1> QED BY <1>1, DecideWithIssueLegal DEF ActOnRequest

\* Resubmitting after a request for information (resubmit).
LEMMA ResubmitLegal ==
  ASSUME NEW d, LegalDocument(d), NEW i \in Issues
  PROVE  \A e \in Resubmit(d, i) : LegalDocument(e)
<1> DEFINE after(r) == [RequestMoved(d, r, "AWAITING_REVIEW", FALSE)
                          EXCEPT !.issue[i] = "WAITING_EXTERNAL"]
<1> SUFFICES ASSUME NEW r \in RequestIds, d.request[r].issue = i,
                    d.request[r].status = "INFORMATION_REQUESTED"
             PROVE  LegalDocument(after(r))
  BY DEF Resubmit, When
<1> DEFINE e == after(r)
           next == "AWAITING_REVIEW"
           explained == FALSE
<1>1. /\ d \in Document /\ i # NoIssue /\ RequestPart(d) /\ ExplanationPart(d)
      /\ next \in RequestStatus /\ explained \in BOOLEAN /\ d.request[r].status # "ABSENT"
      /\ explained <=> next \in {"INFORMATION_REQUESTED", "REJECTED"}
  BY IssuesAssumption DEF LegalDocument, RequestStatus
<1>2. IssueStatusFor(next) = "WAITING_EXTERNAL"
  BY DEF IssueStatusFor
<1>3. e = MovedWithIssue(d, r, next, explained) /\ d.request[r].issue \in Issues
  BY <1>2 DEF MovedWithIssue
<1> HIDE DEF e, next, explained
<1>4. /\ e \in Document /\ RequestTakes(d, e, r, next, explained)
      /\ e.record = d.record /\ e.claim = d.claim /\ e.trail = d.trail
  BY <1>1, <1>3, MovedTogether
<1>5. RequestPart(e) /\ ExplanationPart(e)
  BY <1>1, <1>4, RequestStaysInStep
<1>6. \A j \in Issues : e.issue[j] = IF j = i THEN "WAITING_EXTERNAL" ELSE d.issue[j]
  BY <1>2, <1>4 DEF RequestTakes
<1>7. d.issue[i] = "ACTION_REQUIRED"
  BY <1>1 DEF RequestPart, IssueStatusFor
<1>8. RecordPart(e)
  BY <1>4, <1>6, <1>7 DEF LegalDocument, RecordPart, Issues
<1>9. ReadinessPart(e) /\ TrailPart(e)
  BY <1>4 DEF LegalDocument, ReadinessPart, TrailPart, HasBlockingChecks, ExitRecorded,
              LegacyAligned
<1> QED BY <1>4, <1>5, <1>8, <1>9, e = after(r) DEF LegalDocument, e

\* Saving the nomination (member-self-service-adapter.ts, saveNomination).
LEMMA NominationLegal ==
  ASSUME NEW d, LegalDocument(d)
  PROVE  \A e \in SaveNomination(d) : LegalDocument(e)
<1> DEFINE e == [d EXCEPT !.nomination = "SAVED"]
<1>1. /\ e \in Document /\ e.issue = d.issue /\ e.request = d.request
      /\ e.record = d.record /\ e.claim = d.claim /\ e.trail = d.trail
  BY DEF LegalDocument, Document
<1> HIDE DEF e
<1>2. RecordPart(e) /\ ReadinessPart(e) /\ TrailPart(e)
  BY <1>1 DEF LegalDocument, RecordPart, ReadinessPart, TrailPart, HasBlockingChecks,
              ExitRecorded, LegacyAligned
<1>3. RequestPart(e) /\ ExplanationPart(e)
  BY <1>1 DEF LegalDocument, RequestPart, ExplanationPart
<1> QED BY <1>1, <1>2, <1>3 DEF LegalDocument, SaveNomination, e

\* The fixtures themselves (createSyntheticAppState).
LEMMA SeedLegal == LegalDocument(SeedDocument)
<1> DEFINE d == SeedDocument
<1>1. d \in Document
  <2>1. d.issue \in [Issues -> IssueStatus]
    BY DEF SeedDocument, IssueStatus
  <2>2. d.record \in [Employments -> EmploymentRecord]
    BY DEF SeedDocument, EmploymentRecord
  <2>3. d.request \in [RequestIds -> Request]
    <3> SUFFICES ASSUME NEW r \in RequestIds
                 PROVE  (IF r \in DOMAIN SeedRequests
                           THEN [NoRequest EXCEPT !.status = SeedRequests[r]]
                           ELSE NoRequest) \in Request
      BY DEF SeedDocument
    <3>1. NoRequest \in Request
      BY DEF NoRequest, Request
    <3>2. ASSUME r \in DOMAIN SeedRequests
          PROVE  [NoRequest EXCEPT !.status = SeedRequests[r]] \in Request
      BY <3>1, <3>2, RequestsAssumption DEF Request
    <3> QED BY <3>1, <3>2
  <2>4. d.trail \in Seq(TrailEntry) /\ d.claim \in ClaimState
    <3>1. [state |-> "DRAFT", actor |-> "CITIZEN"] \in TrailEntry /\ "DRAFT" \in ClaimState
      BY SequenceFacts DEF TrailEntry, ActorType, ClaimState
    <3> QED BY <3>1 DEF SeedDocument
  <2> QED BY <2>1, <2>2, <2>3, <2>4 DEF Document, SeedDocument
<1>2. RecordPart(d)
  BY IssuesAssumption DEF RecordPart, SeedDocument, Issues
<1>3. \A r \in RequestIds : d.request[r].issue = NoIssue /\ d.request[r].explained = FALSE
  BY DEF SeedDocument, NoRequest
<1>4. RequestPart(d)
  BY <1>3 DEF RequestPart, SeedDocument, Issues
<1>5. ExplanationPart(d)
  BY <1>3, RequestsAssumption DEF ExplanationPart, SeedDocument, NoRequest
<1>6. ReadinessPart(d)
  BY DraftAssumption, IssuesAssumption DEF ReadinessPart, SeedDocument, HasBlockingChecks,
     ExitRecorded, LegacyAligned, Issues
<1>7. TrailPart(d)
  BY SequenceFacts DEF TrailPart, SeedDocument, CLAIM_SEQUENCE
<1> QED BY <1>1, <1>2, <1>4, <1>5, <1>6, <1>7 DEF LegalDocument

\* A document a command leaves is left by one of the commands.
LEMMA CommandCases ==
  ASSUME NEW d, NEW e \in CommandOutcomes(d)
  PROVE  \/ \E i \in Issues : e \in StartMarkExit(d, i) \cup CompleteMarkExit(d, i) \cup Resubmit(d, i)
         \/ \E i \in Issues, r \in NewRequestIds : e \in CreateRequest(d, i, r)
         \/ \E r \in RequestIds, decision \in Decisions : e \in ActOnRequest(d, r, decision)
         \/ \E next \in claimActionTargets : e \in AdvanceClaim(d, next)
         \/ e \in SubmitClaim(d) \cup SaveNomination(d) \cup CompletePreflight(d)
<1> DEFINE exits == UNION {StartMarkExit(d, i) \cup CompleteMarkExit(d, i) \cup Resubmit(d, i) :
                             i \in Issues}
           requests == UNION {CreateRequest(d, i, r) : i \in Issues, r \in NewRequestIds}
           decisions == UNION {ActOnRequest(d, r, decision) :
                                 r \in RequestIds, decision \in Decisions}
           advances == UNION {AdvanceClaim(d, next) : next \in claimActionTargets}
<1>1. CommandOutcomes(d) = exits \cup requests \cup decisions \cup advances
                             \cup SubmitClaim(d) \cup SaveNomination(d) \cup CompletePreflight(d)
  BY DEF CommandOutcomes
<1>2. e \in exits => \E i \in Issues :
        e \in StartMarkExit(d, i) \cup CompleteMarkExit(d, i) \cup Resubmit(d, i)
  OBVIOUS
<1>3. e \in requests => \E i \in Issues, r \in NewRequestIds : e \in CreateRequest(d, i, r)
  OBVIOUS
<1>4. e \in decisions =>
        \E r \in RequestIds, decision \in Decisions : e \in ActOnRequest(d, r, decision)
  OBVIOUS
<1>5. e \in advances => \E next \in claimActionTargets : e \in AdvanceClaim(d, next)
  OBVIOUS
<1> HIDE DEF exits, requests, decisions, advances
<1> QED BY <1>1, <1>2, <1>3, <1>4, <1>5

\* Whatever command a visitor runs, and in whatever legal document it finds
\* itself, it leaves a legal document: the workflow's inductive step and the
\* reason why a lost update cannot corrupt a row (epfo-service.ts).
THEOREM OutcomesLegal ==
  ASSUME NEW d, LegalDocument(d)
  PROVE  \A e \in Outcomes(d) : LegalDocument(e)
<1>1. \A i \in Issues : \A e \in StartMarkExit(d, i) \cup CompleteMarkExit(d, i) \cup Resubmit(d, i) :
        LegalDocument(e)
  BY StartMarkExitLegal, CompleteMarkExitLegal, ResubmitLegal
<1>2. \A i \in Issues, r \in NewRequestIds : \A e \in CreateRequest(d, i, r) : LegalDocument(e)
  BY CreateRequestLegal DEF RequestIds
<1>3. \A r \in RequestIds, decision \in Decisions :
        \A e \in ActOnRequest(d, r, decision) : LegalDocument(e)
  BY ActOnRequestLegal
<1>4. /\ \A next \in claimActionTargets : \A e \in AdvanceClaim(d, next) : LegalDocument(e)
      /\ \A e \in SubmitClaim(d) : LegalDocument(e)
  BY ClaimCommandsLegal
<1>5. \A e \in SaveNomination(d) \cup CompletePreflight(d) \cup Reset(d) : LegalDocument(e)
  BY NominationLegal, SeedLegal DEF CompletePreflight, Reset
<1>6. \A e \in CommandOutcomes(d) : LegalDocument(e)
  BY <1>1, <1>2, <1>3, <1>4, <1>5, CommandCases
<1> QED BY <1>5, <1>6 DEF Outcomes

\* In a legal document a claim that pays has both parties behind it.
LEMMA LegalIsAuthorised ==
  ASSUME NEW d, LegalDocument(d)
  PROVE  PaymentAuthorised(d)
<1> SUFFICES ASSUME d.claim \in {"APPROVED", "PAYMENT_INSTRUCTION_CREATED",
                                   "BANK_PROCESSING", "CREDITED"}
             PROVE  /\ \A e \in Employments : d.record[e].exitStatus = "VERIFIED"
                    /\ \A i \in LegacyIssues : \E r \in RequestIds :
                         d.request[r].issue = i /\ d.request[r].status = "APPROVED"
                    /\ \E k \in 1..Len(d.trail) :
                         d.trail[k] = [state |-> "SUBMITTED", actor |-> "CITIZEN"]
  BY DEF PaymentAuthorised
<1>1. /\ d \in Document /\ RecordPart(d) /\ RequestPart(d) /\ ReadinessPart(d)
      /\ TrailPart(d)
  BY DEF LegalDocument
<1>2. ExitRecorded(d) /\ LegacyAligned(d)
  BY <1>1 DEF ReadinessPart, HasBlockingChecks
<1>3. ASSUME NEW i \in LegacyIssues
      PROVE  \E r \in RequestIds : d.request[r].issue = i /\ d.request[r].status = "APPROVED"
  <2>1. d.issue[i] = "RESOLVED"
    BY <1>1, <1>2, IssuesAssumption DEF RecordPart, LegacyAligned, Issues
  <2>2. PICK r \in RequestIds : d.request[r].issue = i
    BY <1>1, <2>1 DEF RequestPart
  <2>3. IssueStatusFor(d.request[r].status) = "RESOLVED"
    BY <1>1, <2>1, <2>2, IssuesAssumption DEF RequestPart, Issues
  <2> QED BY <2>2, <2>3 DEF IssueStatusFor
<1>4. Len(d.trail) \in 6..9
  <2>1. \A k \in 1..5 : CLAIM_SEQUENCE[k] # d.claim
    BY DEF CLAIM_SEQUENCE
  <2>2. PICK n \in 1..9 : n = Len(d.trail) /\ d.claim = CLAIM_SEQUENCE[n]
    BY <1>1 DEF TrailPart
  <2>3. n \notin 1..5
    BY <2>1, <2>2
  <2>4. n \in 6..9
    BY <2>3
  <2> QED BY <2>2, <2>4
<1>5. d.trail[3].state = "SUBMITTED" /\ d.trail[3].actor = "CITIZEN"
  BY <1>1, <1>4 DEF TrailPart, CLAIM_SEQUENCE
<1>6. d.trail[3] \in TrailEntry
  BY <1>1, <1>4 DEF Document
<1>7. d.trail[3] = [state |-> "SUBMITTED", actor |-> "CITIZEN"]
  BY <1>5, <1>6 DEF TrailEntry
<1> QED BY <1>2, <1>3, <1>4, <1>7 DEF ExitRecorded

-----------------------------------------------------------------------------
(* Every command does one of three things to the document: it leaves the    *)
(* claim and the records alone, it removes one defect and lets the claim    *)
(* catch up, or it moves an unblocked claim one state on.                   *)

\* No closed issue is opened again and no decided request is touched.
KeepsDecisions(d, e) ==
  /\ \A i \in Issues : d.issue[i] \in {"RESOLVED", "ESCALATED"} => e.issue[i] = d.issue[i]
  /\ \A r \in RequestIds :
       d.request[r].status \in {"APPROVED", "REJECTED"} => e.request[r] = d.request[r]

Bookkeeping(d, e) ==
  /\ e.record = d.record /\ e.claim = d.claim /\ e.trail = d.trail
  /\ KeepsDecisions(d, e)

Correction(d, m) ==
  /\ m.claim = "DRAFT" /\ d.claim = "DRAFT" /\ m.trail = d.trail
  /\ m \in Document
  /\ \E x \in OpenDefects(d) : OpenDefects(m) = OpenDefects(d) \ {x}
  /\ KeepsDecisions(d, m)

\* While a request is undecided its issue is not closed.
LEMMA UndecidedIsOpen ==
  ASSUME NEW d, LegalDocument(d), NEW r \in RequestIds, d.request[r].issue # NoIssue,
         d.request[r].status \notin {"APPROVED", "REJECTED"}
  PROVE  d.issue[d.request[r].issue] \notin {"RESOLVED", "ESCALATED"}
BY DEF LegalDocument, RequestPart, IssueStatusFor, Document, Request, RequestStatus

\* An exit issue never escalates.
LEMMA ExitNeverEscalates ==
  ASSUME NEW d, LegalDocument(d), NEW i \in ExitIssues
  PROVE  d.issue[i] # "ESCALATED"
BY DEF LegalDocument, RequestPart

\* Preflight blocks exactly while a defect is open (preflight.ts).
LEMMA BlockedByDefects ==
  ASSUME NEW d, d.record \in [Employments -> EmploymentRecord]
  PROVE  HasBlockingChecks(d) <=> OpenDefects(d) # {}
<1>1. \A e \in Employments :
        /\ d.record[e].exitStatus # "VERIFIED" <=> d.record[e].exitStatus = "MISSING"
        /\ d.record[e].legacyRecordStatus # "ALIGNED" <=>
             d.record[e].legacyRecordStatus = "REVIEW_REQUIRED"
  BY DEF EmploymentRecord
<1>2. ASSUME HasBlockingChecks(d) PROVE OpenDefects(d) # {}
  <2>1. CASE \E e \in Employments : d.record[e].exitStatus = "MISSING"
    BY <2>1 DEF OpenDefects
  <2>2. CASE \E e \in Employments : d.record[e].legacyRecordStatus = "REVIEW_REQUIRED"
    BY <2>2 DEF OpenDefects
  <2> QED BY <1>1, <1>2, <2>1, <2>2 DEF HasBlockingChecks, ExitRecorded, LegacyAligned
<1>3. ASSUME OpenDefects(d) # {} PROVE HasBlockingChecks(d)
  BY <1>1, <1>3 DEF OpenDefects, HasBlockingChecks, ExitRecorded, LegacyAligned
<1> QED BY <1>2, <1>3

\* The member's self-service correction removes an EXIT defect (completeMarkExit).
LEMMA CompleteMarkExitCorrects ==
  ASSUME NEW d, LegalDocument(d), NEW i \in Issues
  PROVE  \A e \in CompleteMarkExit(d, i) :
           \E m : Correction(d, m) /\ e = SynchronizeClaimReadiness(m)
<1> DEFINE m == [d EXCEPT !.issue[i] = "RESOLVED",
                          !.record[Related[i]].exitStatus = "VERIFIED"]
           x == Related[i]
<1> SUFFICES ASSUME i \in ExitIssues, d.issue[i] = "ACTION_REQUIRED"
             PROVE  Correction(d, m)
  BY DEF CompleteMarkExit, When
<1>1. d \in Document /\ x \in Employments
  BY IssuesAssumption DEF LegalDocument, Issues
<1>2. d.record[x].exitStatus = "MISSING" /\ d.claim = "DRAFT"
  BY <1>1 DEF LegalDocument, RecordPart, ReadinessPart, HasBlockingChecks, ExitRecorded,
              Document, EmploymentRecord
<1>3. /\ m.record = [d.record EXCEPT ![x].exitStatus = "VERIFIED"]
      /\ m.issue = [d.issue EXCEPT ![i] = "RESOLVED"]
      /\ m.request = d.request /\ m.claim = d.claim /\ m.trail = d.trail
  BY <1>1 DEF Document
<1>10. m = [d EXCEPT !.issue = m.issue, !.record = m.record]
  BY <1>1 DEF Document
<1> HIDE DEF m, x
<1>4. [d.record EXCEPT ![x].exitStatus = "VERIFIED"] \in [Employments -> EmploymentRecord]
  BY <1>1, RecordCorrected DEF Document
<1>5. m \in Document
  <2>1. m.record \in [Employments -> EmploymentRecord]
    BY <1>1, <1>3, <1>4 DEF Document
  <2>2. m.issue \in [Issues -> IssueStatus]
    BY <1>1, <1>3 DEF Document, IssueStatus
  <2> QED BY <1>1, <1>10, <2>1, <2>2 DEF Document
<1>6. \A e \in Employments :
        /\ m.record[e].exitStatus = IF e = x THEN "VERIFIED" ELSE d.record[e].exitStatus
        /\ m.record[e].legacyRecordStatus = d.record[e].legacyRecordStatus
  BY <1>1, <1>3 DEF Document, EmploymentRecord
<1>7. OpenDefects(m) = OpenDefects(d) \ {<< "EXIT", x >>}
  BY <1>6 DEF OpenDefects
<1>8. << "EXIT", x >> \in OpenDefects(d)
  BY <1>1, <1>2 DEF OpenDefects
<1>9. KeepsDecisions(d, m)
  BY <1>1, <1>3 DEF KeepsDecisions, Document
<1> QED BY <1>2, <1>3, <1>5, <1>7, <1>8, <1>9 DEF Correction

\* An approval removes the LEGACY defect of its issue (decide).
LEMMA ApprovalCorrects ==
  ASSUME NEW d, LegalDocument(d), NEW r \in RequestIds
  PROVE  \A m \in DecideWithIssue(d, r, "APPROVE") : Correction(d, m)
<1> DEFINE i == d.request[r].issue
           moved == RequestDecided(d, r, "APPROVE")
           m == [moved
                   EXCEPT !.issue[i] = "RESOLVED",
                          !.record[Related[i]].legacyRecordStatus = "ALIGNED"]
           x == Related[i]
<1> SUFFICES ASSUME CanDecide(d, r, "APPROVE"), i # NoIssue,
                    "RESOLVED" \in ISSUE_TRANSITIONS[d.issue[i]]
             PROVE  Correction(d, m)
  BY DEF DecideWithIssue, When, ISSUE_BY_DECISION
<1>1. d \in Document /\ i \in LegacyIssues /\ i \in Issues /\ x \in Employments
  BY IssuesAssumption DEF LegalDocument, RequestPart, Issues
<1>2. d.record[x].legacyRecordStatus = "REVIEW_REQUIRED" /\ d.claim = "DRAFT"
  <2>1. d.issue[i] # "RESOLVED"
    BY DEF ISSUE_TRANSITIONS
  <2> QED BY <2>1, <1>1 DEF LegalDocument, RecordPart, ReadinessPart, HasBlockingChecks,
                            LegacyAligned, Document, EmploymentRecord
<1>3. /\ m.record = [d.record EXCEPT ![x].legacyRecordStatus = "ALIGNED"]
      /\ m.issue = [d.issue EXCEPT ![i] = "RESOLVED"]
      /\ m.request = moved.request
      /\ m.claim = d.claim /\ m.trail = d.trail
  <2>1. moved = [d EXCEPT !.request = moved.request]
    BY <1>1 DEF Document, RequestDecided, RequestMoved
  <2> HIDE DEF moved
  <2> QED BY <1>1, <2>1 DEF Document
<1>4. /\ d.request[r].status \notin {"APPROVED", "REJECTED"}
      /\ \A q \in RequestIds : q # r => moved.request[q] = d.request[q]
  BY <1>1 DEF CanDecide, CanTransitionRequest, REQUEST_TRANSITIONS, RequestDecided,
              RequestMoved, Document
<1>11. m = [d EXCEPT !.issue = m.issue, !.record = m.record, !.request = m.request]
  <2>1. moved = [d EXCEPT !.request = moved.request]
    BY <1>1 DEF Document, RequestDecided, RequestMoved
  <2> HIDE DEF moved
  <2> QED BY <1>1, <2>1 DEF Document
<1>12. moved.request \in [RequestIds -> Request]
  <2> DEFINE next == TARGET_BY_DECISION["APPROVE"]
             explained == ReasonGiven("APPROVE")
  <2>1. next \in RequestStatus /\ explained \in BOOLEAN
    BY DEF TARGET_BY_DECISION, RequestStatus, ReasonGiven
  <2>2. moved.request = [d.request EXCEPT ![r].status = next, ![r].explained = explained]
    BY <1>1 DEF Document, RequestDecided, RequestMoved
  <2> HIDE DEF next, explained, moved, m, i, x
  <2>3. d.request \in [RequestIds -> Request]
    BY <1>1 DEF Document
  <2>4. [d.request EXCEPT ![r].status = next, ![r].explained = explained]
          \in [RequestIds -> Request]
    BY <2>1, <2>3, RequestUpdated
  <2> QED BY <2>2, <2>4
<1> HIDE DEF m, moved, x, i
<1>5. [d.record EXCEPT ![x].legacyRecordStatus = "ALIGNED"] \in [Employments -> EmploymentRecord]
  BY <1>1, RecordCorrected DEF Document
<1>6. m \in Document
  <2>1. m.record \in [Employments -> EmploymentRecord]
    BY <1>1, <1>3, <1>5 DEF Document
  <2>2. m.issue \in [Issues -> IssueStatus]
    BY <1>1, <1>3 DEF Document, IssueStatus
  <2> QED BY <1>1, <1>3, <1>11, <1>12, <2>1, <2>2 DEF Document
<1>7. \A e \in Employments :
        /\ m.record[e].legacyRecordStatus =
             IF e = x THEN "ALIGNED" ELSE d.record[e].legacyRecordStatus
        /\ m.record[e].exitStatus = d.record[e].exitStatus
  BY <1>1, <1>3 DEF Document, EmploymentRecord
<1>8. OpenDefects(m) = OpenDefects(d) \ {<< "LEGACY", x >>}
  BY <1>7 DEF OpenDefects
<1>9. << "LEGACY", x >> \in OpenDefects(d)
  BY <1>1, <1>2 DEF OpenDefects
<1>10. KeepsDecisions(d, m)
  <2>1. d.issue[i] \notin {"RESOLVED", "ESCALATED"}
    BY <1>4, UndecidedIsOpen DEF i
  <2> QED BY <2>1, <1>1, <1>3, <1>4 DEF KeepsDecisions, Document
<1> QED BY <1>2, <1>3, <1>6, <1>8, <1>9, <1>10 DEF Correction

\* What the other decisions, and every decision about another member, change is
\* bookkeeping (decide).
LEMMA DecisionsKeepBooks ==
  ASSUME NEW d, LegalDocument(d), NEW r \in RequestIds, NEW decision \in Decisions
  PROVE  /\ \A e \in DecideRequestOnly(d, r, decision) : Bookkeeping(d, e)
         /\ decision # "APPROVE" =>
              \A e \in DecideWithIssue(d, r, decision) : Bookkeeping(d, e)
<1> DEFINE i == d.request[r].issue
           next == TARGET_BY_DECISION[decision]
           explained == ReasonGiven(decision)
           moved == RequestDecided(d, r, decision)
           plain == [moved EXCEPT !.issue[i] = ISSUE_BY_DECISION[decision]]
<1>1. d \in Document
  BY DEF LegalDocument
<1>2. /\ moved.request = [d.request EXCEPT ![r].status = next, ![r].explained = explained]
      /\ moved.issue = d.issue
      /\ moved.record = d.record /\ moved.claim = d.claim /\ moved.trail = d.trail
  BY <1>1 DEF Document, RequestDecided, RequestMoved
<1>3. /\ plain.request = moved.request
      /\ plain.issue = [d.issue EXCEPT ![i] = ISSUE_BY_DECISION[decision]]
      /\ plain.record = d.record /\ plain.claim = d.claim /\ plain.trail = d.trail
  BY <1>1 DEF Document, RequestDecided, RequestMoved
<1>4. CanDecide(d, r, decision) => d.request[r].status \notin {"APPROVED", "REJECTED"}
  BY DEF CanDecide, CanTransitionRequest, REQUEST_TRANSITIONS
<1>5. ASSUME CanDecide(d, r, decision) PROVE Bookkeeping(d, moved)
  <2> HIDE DEF moved, next, explained
  <2> QED BY <1>1, <1>2, <1>4, <1>5 DEF Bookkeeping, KeepsDecisions, Document
<1>6. ASSUME CanDecide(d, r, decision),
             i # NoIssue
      PROVE  Bookkeeping(d, plain)
  <2>1. d.issue[i] \notin {"RESOLVED", "ESCALATED"}
    BY <1>4, <1>6, UndecidedIsOpen
  <2> HIDE DEF moved, plain, next, explained, i
  <2> QED BY <1>1, <1>2, <1>3, <1>4, <1>6, <2>1 DEF Bookkeeping, KeepsDecisions, Document
<1>7. \A e \in DecideRequestOnly(d, r, decision) : CanDecide(d, r, decision) /\ e = moved
  BY DEF DecideRequestOnly, When
<1>8. decision # "APPROVE" =>
        \A e \in DecideWithIssue(d, r, decision) :
          /\ CanDecide(d, r, decision)
          /\ i # NoIssue
          /\ e = plain
  BY DEF DecideWithIssue, When
<1> HIDE DEF moved, plain
<1> QED BY <1>5, <1>6, <1>7, <1>8

\* The member's other steps (startMarkExit, createRequest, resubmit, saveNomination).
LEMMA MemberKeepsBooks ==
  ASSUME NEW d, LegalDocument(d)
  PROVE  /\ \A i \in Issues : \A e \in StartMarkExit(d, i) : Bookkeeping(d, e)
         /\ \A i \in Issues, r \in RequestIds : \A e \in CreateRequest(d, i, r) : Bookkeeping(d, e)
         /\ \A i \in Issues : \A e \in Resubmit(d, i) : Bookkeeping(d, e)
         /\ \A e \in SaveNomination(d) : Bookkeeping(d, e)
<1>1. d \in Document
  BY DEF LegalDocument
<1>2. ASSUME NEW i \in Issues
      PROVE  \A e \in StartMarkExit(d, i) : Bookkeeping(d, e)
  <2> SUFFICES ASSUME i \in ExitIssues, d.issue[i] # "RESOLVED"
               PROVE  Bookkeeping(d, [d EXCEPT !.issue[i] = "ACTION_REQUIRED"])
    BY DEF StartMarkExit, When, ISSUE_TRANSITIONS
  <2>1. d.issue[i] # "ESCALATED"
    BY ExitNeverEscalates
  <2> QED BY <1>1, <2>1 DEF Bookkeeping, KeepsDecisions, Document
<1>3. ASSUME NEW i \in Issues, NEW r \in RequestIds
      PROVE  \A e \in CreateRequest(d, i, r) : Bookkeeping(d, e)
  <2> DEFINE q == [issue |-> i, status |-> "AWAITING_REVIEW", explained |-> FALSE,
                   exitShown |-> d.record[Related[i]].exitStatus = "VERIFIED"]
             after == [d EXCEPT !.issue[i] = ProgressedToWaiting(@), !.request[r] = q]
  <2>1. ASSUME d.request[r].status = "ABSENT" PROVE Bookkeeping(d, after)
    <3>1. /\ after.issue = [d.issue EXCEPT ![i] = ProgressedToWaiting(d.issue[i])]
          /\ after.request = [d.request EXCEPT ![r] = q]
          /\ after.record = d.record /\ after.claim = d.claim /\ after.trail = d.trail
      BY <1>1 DEF Document
    <3>2. d.issue[i] \in {"RESOLVED", "ESCALATED"} =>
            ProgressedToWaiting(d.issue[i]) = d.issue[i]
      BY DEF ProgressedToWaiting
    <3> HIDE DEF after, q
    <3> QED BY <1>1, <2>1, <3>1, <3>2 DEF Bookkeeping, KeepsDecisions, Document
  <2> QED BY <2>1 DEF CreateRequest, When
<1>4. ASSUME NEW i \in Issues
      PROVE  \A e \in Resubmit(d, i) : Bookkeeping(d, e)
  <2> SUFFICES ASSUME NEW q \in RequestIds, d.request[q].status = "INFORMATION_REQUESTED",
                      d.request[q].issue = i
               PROVE  Bookkeeping(d, [RequestMoved(d, q, "AWAITING_REVIEW", FALSE)
                                        EXCEPT !.issue[i] = "WAITING_EXTERNAL"])
    BY DEF Resubmit, When
  <2>1. d.issue[i] \notin {"RESOLVED", "ESCALATED"}
    BY UndecidedIsOpen, IssuesAssumption
  <2> QED BY <1>1, <2>1 DEF RequestMoved, Bookkeeping, KeepsDecisions, Document
<1>5. \A e \in SaveNomination(d) : Bookkeeping(d, e)
  BY <1>1 DEF SaveNomination, Bookkeeping, KeepsDecisions, Document
<1> QED BY <1>2, <1>3, <1>4, <1>5

\* One command on a legal document, as the claim journey sees it.
JourneyStep(d, e) ==
  \/ Bookkeeping(d, e)
  \/ \E m : Correction(d, m) /\ e = SynchronizeClaimReadiness(m)
  \/ \E next \in ClaimState, actor \in ActorType :
       e = ClaimMoved(d, next, actor) /\ IsNextClaimState(d.claim, next)
         /\ ~ HasBlockingChecks(d)

\* An approval catches the claim up only if it removed a defect: after a decision
\* about another member there is nothing to synchronise (actOnEmployerRequest).
LEMMA DecisionIsJourneyStep ==
  ASSUME NEW d, LegalDocument(d), NEW r \in RequestIds, NEW decision \in Decisions
  PROVE  \A e \in ActOnRequest(d, r, decision) : JourneyStep(d, e)
<1>1. ASSUME NEW e \in DecideRequestOnly(d, r, decision)
      PROVE  JourneyStep(d, e) /\ SynchronizeClaimReadiness(e) = e
  <2>1. Bookkeeping(d, e)
    BY DecisionsKeepBooks
  <2>2. SynchronizeClaimReadiness(e) = e
    BY <2>1 DEF Bookkeeping, SynchronizeClaimReadiness, LegalDocument, ReadinessPart,
                HasBlockingChecks, ExitRecorded, LegacyAligned
  <2> QED BY <2>1, <2>2 DEF JourneyStep
<1>2. ASSUME NEW e \in DecideWithIssue(d, r, decision), decision # "APPROVE"
      PROVE  JourneyStep(d, e)
  BY <1>2, DecisionsKeepBooks DEF JourneyStep
<1>3. ASSUME NEW e \in DecideWithIssue(d, r, decision), decision = "APPROVE"
      PROVE  JourneyStep(d, SynchronizeClaimReadiness(e))
  BY <1>3, ApprovalCorrects DEF JourneyStep
<1> QED BY <1>1, <1>2, <1>3 DEF ActOnRequest

\* The settlement claim moves only when nothing blocks it (transitionClaim).
LEMMA TransitionIsJourneyStep ==
  ASSUME NEW d, LegalDocument(d), NEW next \in ClaimState, NEW confirmed \in BOOLEAN,
         NEW actor \in ActorType
  PROVE  \A e \in TransitionClaim(d, next, confirmed, actor) : JourneyStep(d, e)
<1> SUFFICES ASSUME IsNextClaimState(d.claim, next), d.claim = "DRAFT" => ~ HasBlockingChecks(d)
             PROVE  JourneyStep(d, ClaimMoved(d, next, actor))
  BY DEF TransitionClaim, When
<1>1. ~ HasBlockingChecks(d)
  BY DEF LegalDocument, ReadinessPart
<1> QED BY <1>1 DEF JourneyStep

\* All commands together.
LEMMA CommandIsJourneyStep ==
  ASSUME NEW d, LegalDocument(d), NEW e \in CommandOutcomes(d)
  PROVE  JourneyStep(d, e)
<1>1. ASSUME NEW i \in Issues, e \in StartMarkExit(d, i) \cup Resubmit(d, i)
      PROVE  JourneyStep(d, e)
  BY <1>1, MemberKeepsBooks DEF JourneyStep
<1>2. ASSUME NEW i \in Issues, e \in CompleteMarkExit(d, i) PROVE JourneyStep(d, e)
  BY <1>2, CompleteMarkExitCorrects DEF JourneyStep
<1>3. ASSUME NEW i \in Issues, NEW r \in NewRequestIds, e \in CreateRequest(d, i, r)
      PROVE  JourneyStep(d, e)
  BY <1>3, MemberKeepsBooks DEF JourneyStep, RequestIds
<1>4. ASSUME NEW r \in RequestIds, NEW decision \in Decisions, e \in ActOnRequest(d, r, decision)
      PROVE  JourneyStep(d, e)
  BY <1>4, DecisionIsJourneyStep
<1>5. /\ {"SUBMITTED"} \cup claimActionTargets \subseteq ClaimState
      /\ "CITIZEN" \in ActorType /\ \A s : ActorByState(s) \in ActorType
  BY DEF claimActionTargets, ClaimState, CLAIM_SEQUENCE, ActorType, ActorByState
<1>6. ASSUME NEW next \in claimActionTargets, e \in AdvanceClaim(d, next)
      PROVE  JourneyStep(d, e)
  <2> DEFINE confirmed == FALSE
  <2>1. e \in TransitionClaim(d, next, confirmed, ActorByState(next)) /\ confirmed \in BOOLEAN
    BY <1>6 DEF AdvanceClaim
  <2> HIDE DEF confirmed
  <2> QED BY <2>1, <1>5, TransitionIsJourneyStep
<1>7. ASSUME e \in SubmitClaim(d) PROVE JourneyStep(d, e)
  <2> DEFINE confirmed == TRUE
  <2>1. e \in TransitionClaim(d, "SUBMITTED", confirmed, "CITIZEN") /\ confirmed \in BOOLEAN
    BY <1>7 DEF SubmitClaim
  <2> HIDE DEF confirmed
  <2> QED BY <2>1, <1>5, TransitionIsJourneyStep
<1>8. ASSUME e \in SaveNomination(d) PROVE JourneyStep(d, e)
  BY <1>8, MemberKeepsBooks DEF JourneyStep
<1>9. ASSUME e \in CompletePreflight(d) PROVE JourneyStep(d, e)
  BY <1>9 DEF CompletePreflight, JourneyStep, Bookkeeping, KeepsDecisions
<1> QED BY <1>1, <1>2, <1>3, <1>4, <1>6, <1>7, <1>8, <1>9, CommandCases

\* No command undoes anything: employer-request-machine.ts and issue-machine.ts have no
\* way back from APPROVED, REJECTED and RESOLVED, and the claim only appends.
LEMMA CommandsUndoNothing ==
  ASSUME NEW d, LegalDocument(d), NEW e \in CommandOutcomes(d)
  PROVE  UndoesNothing(d, e)
<1>1. d \in Document /\ d.trail \in Seq(TrailEntry) /\ Len(d.trail) \in Nat
  BY DEF LegalDocument, Document
<1>2. CASE Bookkeeping(d, e)
  BY <1>1, <1>2 DEF Bookkeeping, KeepsDecisions, UndoesNothing
<1>3. ASSUME NEW m \in Document, m.trail = d.trail, KeepsDecisions(d, m),
             e = m \/ \E next \in ClaimState, actor \in ActorType : e = ClaimMoved(m, next, actor)
      PROVE  UndoesNothing(d, e)
  <2>1. CASE e = m
    BY <1>1, <1>3, <2>1 DEF KeepsDecisions, UndoesNothing
  <2>2. ASSUME NEW next \in ClaimState, NEW actor \in ActorType, e = ClaimMoved(m, next, actor)
        PROVE  UndoesNothing(d, e)
    <3>1. /\ e.issue = m.issue /\ e.request = m.request
          /\ e.trail = Append(d.trail, [state |-> next, actor |-> actor])
      BY <1>3, <2>2 DEF ClaimMoved, Document
    <3>2. [state |-> next, actor |-> actor] \in TrailEntry
      BY DEF TrailEntry
    <3>3. /\ Len(e.trail) = Len(d.trail) + 1
          /\ \A k \in 1..Len(d.trail) : e.trail[k] = d.trail[k]
      BY <1>1, <3>1, <3>2
    <3> QED BY <1>1, <1>3, <3>1, <3>3 DEF KeepsDecisions, UndoesNothing
  <2> QED BY <1>3, <2>1, <2>2
<1>4. "READY" \in ClaimState /\ "SYSTEM" \in ActorType
  BY SequenceFacts DEF ActorType
<1>5. ASSUME NEW m, Correction(d, m), e = SynchronizeClaimReadiness(m)
      PROVE  UndoesNothing(d, e)
  BY <1>3, <1>4, <1>5 DEF Correction, SynchronizeClaimReadiness
<1>6. ASSUME NEW next \in ClaimState, NEW actor \in ActorType, e = ClaimMoved(d, next, actor)
      PROVE  UndoesNothing(d, e)
  <2>1. KeepsDecisions(d, d)
    BY DEF KeepsDecisions
  <2> QED BY <1>1, <1>3, <1>6, <2>1
<1> QED BY <1>2, <1>5, <1>6, CommandIsJourneyStep DEF JourneyStep

\* What the claim journey sees of a command: nothing, one defect less, or an unblocked
\* claim one state on.
JourneyMove(d, e) ==
  \/ OpenDefects(e) = OpenDefects(d) /\ e.claim = d.claim
  \/ \E x \in OpenDefects(d) :
       /\ d.claim = "DRAFT" /\ OpenDefects(e) = OpenDefects(d) \ {x}
       /\ e.claim = IF OpenDefects(e) = {} THEN "READY" ELSE "DRAFT"
  \/ /\ OpenDefects(d) = {} /\ OpenDefects(e) = {}
     /\ \E k \in 2..8 : d.claim = CLAIM_SEQUENCE[k] /\ e.claim = CLAIM_SEQUENCE[k + 1]

LEMMA CommandIsJourneyMove ==
  ASSUME NEW d, LegalDocument(d), NEW e \in CommandOutcomes(d)
  PROVE  JourneyMove(d, e)
<1>1. d \in Document
  BY DEF LegalDocument
<1>2. ASSUME Bookkeeping(d, e) PROVE JourneyMove(d, e)
  BY <1>2 DEF Bookkeeping, OpenDefects, JourneyMove
<1>3. ASSUME NEW m, Correction(d, m), e = SynchronizeClaimReadiness(m)
      PROVE  JourneyMove(d, e)
  <2>1. PICK x \in OpenDefects(d) : OpenDefects(m) = OpenDefects(d) \ {x}
    BY <1>3 DEF Correction
  <2>2. m \in Document /\ m.claim = "DRAFT" /\ d.claim = "DRAFT"
    BY <1>3 DEF Correction
  <2>3. HasBlockingChecks(m) <=> OpenDefects(m) # {}
    BY <2>2, BlockedByDefects DEF Document
  <2>4. e.record = m.record
    BY <1>3, <2>2 DEF SynchronizeClaimReadiness, ClaimMoved, Document
  <2>5. OpenDefects(e) = OpenDefects(m)
    BY <2>4 DEF OpenDefects
  <2>6. e.claim = IF OpenDefects(e) = {} THEN "READY" ELSE "DRAFT"
    BY <1>3, <2>2, <2>3, <2>5 DEF SynchronizeClaimReadiness, ClaimMoved, Document
  <2> QED BY <2>1, <2>2, <2>5, <2>6 DEF JourneyMove
<1>4. ASSUME NEW next \in ClaimState, NEW actor \in ActorType,
             e = ClaimMoved(d, next, actor), IsNextClaimState(d.claim, next),
             ~ HasBlockingChecks(d)
      PROVE  JourneyMove(d, e)
  <2>1. OpenDefects(d) = {} /\ d.claim # "DRAFT"
    BY <1>1, <1>4, BlockedByDefects DEF Document, LegalDocument, ReadinessPart
  <2>2. PICK k \in 1..8 : CLAIM_SEQUENCE[k] = d.claim /\ CLAIM_SEQUENCE[k + 1] = next
    BY <1>4 DEF IsNextClaimState
  <2>3. k \in 2..8
    BY <2>1, <2>2 DEF CLAIM_SEQUENCE
  <2>4. e.record = d.record /\ e.claim = next
    BY <1>1, <1>4 DEF ClaimMoved, Document
  <2>5. OpenDefects(e) = OpenDefects(d)
    BY <2>4 DEF OpenDefects
  <2> QED BY <2>1, <2>2, <2>3, <2>4, <2>5 DEF JourneyMove
<1> QED BY <1>2, <1>3, <1>4, CommandIsJourneyStep DEF JourneyStep

\* No document has a defect the fixtures did not have.
LEMMA DefectsAreSeeded ==
  ASSUME NEW d, LegalDocument(d)
  PROVE  OpenDefects(d) \subseteq OpenDefects(SeedDocument)
BY DEF LegalDocument, RecordPart, OpenDefects, SeedDocument

-----------------------------------------------------------------------------
(* Every command follows the machines. *)

\* From d to e each request, each issue and the claim stayed or took one step of its machine;
\* only createRequest takes two, from OPEN through ACTION_REQUIRED to WAITING_EXTERNAL.
FollowsMachines(d, e) ==
  /\ \A r \in RequestIds :
       \/ /\ e.request[r].issue = d.request[r].issue
          /\ \/ e.request[r].status = d.request[r].status
             \/ /\ d.request[r].status # "ABSENT"
                /\ e.request[r].status \in REQUEST_TRANSITIONS[d.request[r].status]
       \/ /\ d.request[r].status = "ABSENT" /\ e.request[r].status = "AWAITING_REVIEW"
          /\ e.request[r].issue \in LegacyIssues
  /\ \A i \in Issues :
       \/ e.issue[i] = d.issue[i]
       \/ e.issue[i] \in ISSUE_TRANSITIONS[d.issue[i]]
       \/ d.issue[i] = "OPEN" /\ e.issue[i] = "WAITING_EXTERNAL"
  /\ e.claim = d.claim \/ IsNextClaimState(d.claim, e.claim)

\* A step that changes at most one request and one issue, each along its machine.
OneMove(d, e, r, status, i, next) ==
  /\ \/ e.request = d.request
     \/ \E explained \in BOOLEAN :
          /\ e.request = [d.request EXCEPT ![r].status = status, ![r].explained = explained]
          /\ d.request[r].status # "ABSENT"
          /\ status \in REQUEST_TRANSITIONS[d.request[r].status]
  /\ \/ e.issue = d.issue
     \/ e.issue = [d.issue EXCEPT ![i] = next] /\ next \in ISSUE_TRANSITIONS[d.issue[i]]

LEMMA OneMoveFollows ==
  ASSUME NEW d \in Document, NEW e, NEW r, NEW status, NEW i, NEW next,
         OneMove(d, e, r, status, i, next)
  PROVE  /\ \A q \in RequestIds :
              /\ e.request[q].issue = d.request[q].issue
              /\ \/ e.request[q].status = d.request[q].status
                 \/ /\ d.request[q].status # "ABSENT"
                    /\ e.request[q].status \in REQUEST_TRANSITIONS[d.request[q].status]
         /\ \A j \in Issues : e.issue[j] = d.issue[j] \/ e.issue[j] \in ISSUE_TRANSITIONS[d.issue[j]]
<1>1. d.request \in [RequestIds -> Request] /\ d.issue \in [Issues -> IssueStatus]
  BY DEF Document
<1>2. ASSUME NEW explained \in BOOLEAN, NEW q \in RequestIds,
             e.request = [d.request EXCEPT ![r].status = status, ![r].explained = explained]
      PROVE  /\ e.request[q].issue = d.request[q].issue
             /\ e.request[q].status = IF q = r THEN status ELSE d.request[q].status
  BY <1>1, <1>2 DEF Request
<1>3. \A q \in RequestIds :
        /\ e.request[q].issue = d.request[q].issue
        /\ \/ e.request[q].status = d.request[q].status
           \/ /\ d.request[q].status # "ABSENT"
              /\ e.request[q].status \in REQUEST_TRANSITIONS[d.request[q].status]
  BY <1>1, <1>2 DEF OneMove
<1>4. \A j \in Issues : e.issue[j] = d.issue[j] \/ e.issue[j] \in ISSUE_TRANSITIONS[d.issue[j]]
  BY <1>1 DEF OneMove
<1> QED BY <1>3, <1>4

\* Synchronising leaves issues and requests alone.
LEMMA SynchronizeFrame ==
  ASSUME NEW d \in Document
  PROVE  /\ SynchronizeClaimReadiness(d).issue = d.issue
         /\ SynchronizeClaimReadiness(d).request = d.request
BY DEF SynchronizeClaimReadiness, ClaimMoved, Document

LEMMA DecisionMovesOne ==
  ASSUME NEW d, LegalDocument(d), NEW r \in RequestIds, NEW decision \in Decisions
  PROVE  \A e \in ActOnRequest(d, r, decision) :
           /\ OneMove(d, e, r, TARGET_BY_DECISION[decision], d.request[r].issue,
                      ISSUE_BY_DECISION[decision])
           /\ e.request = [d.request EXCEPT ![r].status = TARGET_BY_DECISION[decision],
                                            ![r].explained = ReasonGiven(decision)]
<1> DEFINE i == d.request[r].issue
           moved == RequestDecided(d, r, decision)
           Moves(e) ==
             /\ OneMove(d, e, r, TARGET_BY_DECISION[decision], i, ISSUE_BY_DECISION[decision])
             /\ e.request = [d.request EXCEPT ![r].status = TARGET_BY_DECISION[decision],
                                              ![r].explained = ReasonGiven(decision)]
           resolved == [moved EXCEPT !.issue[i] = "RESOLVED",
                                     !.record[Related[i]].legacyRecordStatus = "ALIGNED"]
           plain == [moved EXCEPT !.issue[i] = ISSUE_BY_DECISION[decision]]
<1>1. d \in Document
  BY DEF LegalDocument
<1>2. /\ moved.request = [d.request EXCEPT ![r].status = TARGET_BY_DECISION[decision],
                                           ![r].explained = ReasonGiven(decision)]
      /\ moved.issue = d.issue /\ ReasonGiven(decision) \in BOOLEAN
  BY <1>1 DEF Document, RequestDecided, RequestMoved, ReasonGiven
<1>3. /\ resolved.request = moved.request /\ resolved.issue = [d.issue EXCEPT ![i] = "RESOLVED"]
      /\ plain.request = moved.request
      /\ plain.issue = [d.issue EXCEPT ![i] = ISSUE_BY_DECISION[decision]]
  BY <1>1 DEF Document, RequestDecided, RequestMoved
<1> HIDE DEF moved, resolved, plain
<1>4. ASSUME CanDecide(d, r, decision) PROVE Moves(moved)
  BY <1>2, <1>4 DEF OneMove, CanDecide, CanTransitionRequest
<1>5. ASSUME CanDecide(d, r, decision), ISSUE_BY_DECISION[decision] \in ISSUE_TRANSITIONS[d.issue[i]]
      PROVE  Moves(plain) /\ (decision = "APPROVE" => Moves(resolved))
  <2>1. decision = "APPROVE" => ISSUE_BY_DECISION[decision] = "RESOLVED"
    BY DEF ISSUE_BY_DECISION
  <2> QED BY <1>2, <1>3, <1>5, <2>1 DEF OneMove, CanDecide, CanTransitionRequest
<1>6. \A e \in DecideRequestOnly(d, r, decision) : e = moved /\ CanDecide(d, r, decision)
  BY DEF DecideRequestOnly, When, moved
<1>7. \A e \in DecideWithIssue(d, r, decision) :
        /\ CanDecide(d, r, decision)
        /\ ISSUE_BY_DECISION[decision] \in ISSUE_TRANSITIONS[d.issue[i]]
        /\ e = IF decision = "APPROVE" THEN resolved ELSE plain
  BY DEF DecideWithIssue, When, moved, resolved, plain
<1>8. ASSUME NEW e \in DecideRequestOnly(d, r, decision) \cup DecideWithIssue(d, r, decision)
      PROVE  Moves(e) /\ e \in Document
  <2>1. e \in DecideRequestOnly(d, r, decision) => e \in Document
    BY DecideRequestOnlyLegal DEF LegalDocument
  <2>2. e \in DecideWithIssue(d, r, decision) /\ decision = "APPROVE" => e \in Document
    BY ApprovalCorrects DEF Correction
  <2>3. e \in DecideWithIssue(d, r, decision) /\ decision # "APPROVE" => e \in Document
    BY DecideWithIssueLegal DEF LegalDocument
  <2> QED BY <1>4, <1>5, <1>6, <1>7, <1>8, <2>1, <2>2, <2>3
<1>9. ASSUME NEW e \in DecideRequestOnly(d, r, decision) \cup DecideWithIssue(d, r, decision)
      PROVE  Moves(SynchronizeClaimReadiness(e))
  BY <1>8, <1>9, SynchronizeFrame DEF OneMove
<1> QED BY <1>8, <1>9 DEF ActOnRequest

\* Completing Mark Exit resolves its issue and touches no request.
LEMMA ExitIsResolved ==
  ASSUME NEW d, LegalDocument(d), NEW i \in Issues, NEW e \in CompleteMarkExit(d, i)
  PROVE  /\ e.request = d.request /\ e.issue = [d.issue EXCEPT ![i] = "RESOLVED"]
         /\ "RESOLVED" \in ISSUE_TRANSITIONS[d.issue[i]]
<1> DEFINE m == [d EXCEPT !.issue[i] = "RESOLVED", !.record[Related[i]].exitStatus = "VERIFIED"]
<1>1. d \in Document /\ Related[i] \in Employments
  BY IssuesAssumption DEF LegalDocument, Issues
<1>2. e = SynchronizeClaimReadiness(m) /\ d.issue[i] = "ACTION_REQUIRED"
  BY DEF CompleteMarkExit, When
<1>3. /\ m.issue = [d.issue EXCEPT ![i] = "RESOLVED"] /\ m.request = d.request
      /\ m.record = [d.record EXCEPT ![Related[i]].exitStatus = "VERIFIED"]
      /\ m = [d EXCEPT !.issue = m.issue, !.record = m.record]
  BY <1>1 DEF Document
<1> HIDE DEF m
<1>4. m.record \in [Employments -> EmploymentRecord]
  <2>1. d.record \in [Employments -> EmploymentRecord]
    BY <1>1 DEF Document
  <2>2. ASSUME NEW x \in Employments
        PROVE  [d.record EXCEPT ![x].exitStatus = "VERIFIED"] \in [Employments -> EmploymentRecord]
    BY <2>1, RecordCorrected
  <2> QED BY <1>1, <1>3, <2>2
<1>5. m.issue \in [Issues -> IssueStatus]
  BY <1>1, <1>3 DEF Document, IssueStatus
<1>6. m \in Document
  BY <1>1, <1>3, <1>4, <1>5 DEF Document
<1>7. "RESOLVED" \in ISSUE_TRANSITIONS[d.issue[i]]
  BY <1>2 DEF ISSUE_TRANSITIONS
<1> QED BY <1>2, <1>3, <1>6, <1>7, SynchronizeFrame

\* The other commands of the issue and request machines.
LEMMA MemberMovesOne ==
  ASSUME NEW d, LegalDocument(d), NEW i \in Issues
  PROVE  \A e \in StartMarkExit(d, i) \cup CompleteMarkExit(d, i) \cup Resubmit(d, i) :
           \E r, status, next : OneMove(d, e, r, status, i, next)
<1>1. d \in Document
  BY DEF LegalDocument
<1>2. ASSUME NEW e \in StartMarkExit(d, i) PROVE OneMove(d, e, NoIssue, "ABSENT", i, "ACTION_REQUIRED")
  BY <1>1, <1>2 DEF StartMarkExit, When, OneMove, Document
<1>3. ASSUME NEW e \in CompleteMarkExit(d, i) PROVE OneMove(d, e, NoIssue, "ABSENT", i, "RESOLVED")
  BY <1>3, ExitIsResolved DEF OneMove
<1>4. ASSUME NEW e \in Resubmit(d, i)
      PROVE  \E r : OneMove(d, e, r, "AWAITING_REVIEW", i, "WAITING_EXTERNAL")
  <2>1. PICK r \in RequestIds :
          /\ d.request[r].status = "INFORMATION_REQUESTED"
          /\ "WAITING_EXTERNAL" \in ISSUE_TRANSITIONS[d.issue[i]]
          /\ e = [RequestMoved(d, r, "AWAITING_REVIEW", FALSE) EXCEPT !.issue[i] = "WAITING_EXTERNAL"]
    BY <1>4 DEF Resubmit, When
  <2>2. /\ e.request = [d.request EXCEPT ![r].status = "AWAITING_REVIEW", ![r].explained = FALSE]
        /\ e.issue = [d.issue EXCEPT ![i] = "WAITING_EXTERNAL"]
    BY <1>1, <2>1 DEF RequestMoved, Document
  <2>3. OneMove(d, e, r, "AWAITING_REVIEW", i, "WAITING_EXTERNAL")
    <3>1. "AWAITING_REVIEW" \in REQUEST_TRANSITIONS[d.request[r].status]
      BY <2>1 DEF REQUEST_TRANSITIONS
    <3>2. \E explained \in BOOLEAN :
            e.request = [d.request EXCEPT ![r].status = "AWAITING_REVIEW", ![r].explained = explained]
      BY <2>2
    <3> QED BY <2>1, <2>2, <3>1, <3>2 DEF OneMove
  <2> QED BY <2>3
<1> QED BY <1>2, <1>3, <1>4

LEMMA CommandFollowsMachines ==
  ASSUME NEW d, LegalDocument(d), NEW e \in CommandOutcomes(d)
  PROVE  FollowsMachines(d, e)
<1>1. d \in Document
  BY DEF LegalDocument
<1>2. e.claim = d.claim \/ IsNextClaimState(d.claim, e.claim)
  <2>1. IsNextClaimState("DRAFT", "READY")
    BY DEF IsNextClaimState, CLAIM_SEQUENCE
  <2> QED BY <2>1, CommandIsJourneyMove DEF JourneyMove, IsNextClaimState
<1>3. ASSUME NEW r, NEW status, NEW i, NEW next, OneMove(d, e, r, status, i, next)
      PROVE  FollowsMachines(d, e)
  BY <1>1, <1>2, <1>3, OneMoveFollows DEF FollowsMachines
<1>4. ASSUME e.request = d.request, e.issue = d.issue PROVE FollowsMachines(d, e)
  BY <1>2, <1>4 DEF FollowsMachines
<1>5. ASSUME NEW i \in Issues, NEW r \in NewRequestIds, e \in CreateRequest(d, i, r)
      PROVE  FollowsMachines(d, e)
  <2> DEFINE q == [issue |-> i, status |-> "AWAITING_REVIEW", explained |-> FALSE,
                   exitShown |-> d.record[Related[i]].exitStatus = "VERIFIED"]
  <2>1. /\ e.request = [d.request EXCEPT ![r] = q] /\ d.request[r].status = "ABSENT"
        /\ e.issue = [d.issue EXCEPT ![i] = ProgressedToWaiting(d.issue[i])]
    BY <1>1, <1>5 DEF CreateRequest, When, Document
  <2>2. \A p \in RequestIds : e.request[p] = IF p = r THEN q ELSE d.request[p]
    BY <1>1, <2>1 DEF Document
  <2>3. \A j \in Issues : e.issue[j] = IF j = i THEN ProgressedToWaiting(d.issue[i]) ELSE d.issue[j]
    BY <1>1, <2>1 DEF Document
  <2>4. q.status = "AWAITING_REVIEW" /\ q.issue \in LegacyIssues
    BY <1>5 DEF CreateRequest, When
  <2>5. "WAITING_EXTERNAL" \in ISSUE_TRANSITIONS["ACTION_REQUIRED"]
    BY DEF ISSUE_TRANSITIONS
  <2> HIDE DEF q
  <2> QED BY <1>2, <2>1, <2>2, <2>3, <2>4, <2>5 DEF FollowsMachines, ProgressedToWaiting
<1>6. ASSUME NEW next, NEW confirmed, NEW actor, e \in TransitionClaim(d, next, confirmed, actor)
      PROVE  FollowsMachines(d, e)
  BY <1>1, <1>4, <1>6 DEF TransitionClaim, When, ClaimMoved, Document
<1>7. ASSUME e \in SaveNomination(d) \cup CompletePreflight(d) PROVE FollowsMachines(d, e)
  BY <1>1, <1>4, <1>7 DEF SaveNomination, CompletePreflight, Document
<1> QED BY <1>3, <1>5, <1>6, <1>7, CommandCases, MemberMovesOne, DecisionMovesOne
        DEF SubmitClaim, AdvanceClaim
=============================================================================
